---- MODULE Spec2Model ----
(***************************************************************************)
(* Model of stewi/validate.py: the reconciliation of an inventory against  *)
(* a reference dataset (validate_inventory), the provenance ledger         *)
(* ValidationSets_Sources.csv (update_validationsets_sources) and the      *)
(* report (write_validation_result); and of the national totals and the    *)
(* validation runs of stewi/NEI.py and stewi/egrid.py.                     *)
(***************************************************************************)
EXTENDS Integers, Sequences, FiniteSets, TLC

(***************************************************************************)
(* Bounds of the model.                                                    *)
(***************************************************************************)
\* records held by the inventory and the reference dataset together
MaxRecords == 3
\* records the ledger holds at most
MaxLedger == 3
\* the number of records of the two datasets together when the datasets
\* differ in their columns
MaxShapeRecords == 2
\* the number of records of the two datasets together when FlowAmount
\* cells are strings
MaxParseRecords == 3
\* the number of rows of the files of a downloaded archive together
MaxArchiveRows == 2
\* the number of rows of flowbyfac
MaxFlows == 2

(***************************************************************************)
(* Floating point values (Python float / numpy float64).  A value is       *)
(* finite (the exact rational n/d, d > 0, in lowest terms), +inf, -inf or  *)
(* NaN.                                                                    *)
(***************************************************************************)
RECURSIVE GCD(_, _)
GCD(a, b) == IF b = 0 THEN a ELSE GCD(b, a % b)

Abs(n) == IF n < 0 THEN -n ELSE n

Rat(n, d) ==
    LET s == IF d < 0 THEN -1 ELSE 1
        g == GCD(Abs(n), Abs(d))
    IN  [k |-> "fin", n |-> (s * n) \div g, d |-> (s * d) \div g]

Fin(n) == [k |-> "fin", n |-> n, d |-> 1]
PosInf == [k |-> "inf", n |-> 0, d |-> 1]
NegInf == [k |-> "ninf", n |-> 0, d |-> 1]
NaN == [k |-> "nan", n |-> 0, d |-> 1]

IsNaN(a) == a.k = "nan"

FNeg(a) ==
    CASE a.k = "fin" -> Rat(-a.n, a.d)
      [] a.k = "inf" -> NegInf
      [] a.k = "ninf" -> PosInf
      [] OTHER -> NaN

FAbs(a) ==
    CASE a.k = "fin" -> Rat(Abs(a.n), a.d)
      [] a.k = "nan" -> NaN
      [] OTHER -> PosInf

FAdd(a, b) ==
    CASE a.k = "nan" \/ b.k = "nan" -> NaN
      [] a.k = "fin" /\ b.k = "fin" -> Rat(a.n * b.d + b.n * a.d, a.d * b.d)
      [] a.k = "fin" -> b
      [] b.k = "fin" -> a
      [] a.k = b.k -> a
      [] OTHER -> NaN

FSub(a, b) == FAdd(a, FNeg(b))

\* sign of a value that is not NaN: -1, 0 or 1
FSign(a) ==
    CASE a.k = "inf" -> 1
      [] a.k = "ninf" -> -1
      [] OTHER -> IF a.n > 0 THEN 1 ELSE IF a.n < 0 THEN -1 ELSE 0

FMul(a, b) ==
    CASE a.k = "nan" \/ b.k = "nan" -> NaN
      [] a.k = "fin" /\ b.k = "fin" -> Rat(a.n * b.n, a.d * b.d)
      [] FSign(a) * FSign(b) = 0 -> NaN
      [] FSign(a) * FSign(b) > 0 -> PosInf
      [] OTHER -> NegInf

\* a / b for b # 0.0 (Python raises ZeroDivisionError otherwise; the
\* division of validate_inventory is only reached with a nonzero divisor).
\* The quotient is exact: it is the quotient of Python where that is a
\* double, as it is for the amounts of every specification that divides
\* with FDiv; the rounded division is DDiv
FDiv(a, b) ==
    CASE a.k = "nan" \/ b.k = "nan" -> NaN
      [] a.k = "fin" /\ b.k = "fin" -> Rat(a.n * b.d, a.d * b.n)
      [] a.k = "fin" -> Fin(0)
      [] b.k = "fin" -> IF FSign(a) * FSign(b) > 0 THEN PosInf ELSE NegInf
      [] OTHER -> NaN

\* a == b, a <= b, a > b of IEEE 754: every comparison with NaN is false
FEq(a, b) ==
    /\ a.k # "nan"
    /\ b.k # "nan"
    /\ a.k = b.k
    /\ a.k = "fin" => a.n * b.d = b.n * a.d

FLt(a, b) ==
    CASE a.k = "nan" \/ b.k = "nan" -> FALSE
      [] a.k = "fin" /\ b.k = "fin" -> a.n * b.d < b.n * a.d
      [] a.k = "ninf" -> b.k # "ninf"
      [] b.k = "inf" -> a.k # "inf"
      [] OTHER -> FALSE

FLe(a, b) == FLt(a, b) \/ FEq(a, b)

FGt(a, b) == FLt(b, a)

(***************************************************************************)
(* Double precision.  validate_inventory computes with Python floats,      *)
(* IEEE 754 binary64: every product, difference and quotient is rounded    *)
(* to 53 significant bits, to nearest, ties to even.  A natural number of  *)
(* any size is the sequence of its digits in base LimbBase, the least      *)
(* significant first, <<>> for 0.  A finite double is sign * m * 2^e with  *)
(* m of exactly Precision bits, or 0.                                      *)
(***************************************************************************)
LimbBase == 8192
LimbBits == 13
Precision == 53

RECURSIVE Pow2(_)
Pow2(n) == IF n = 0 THEN 1 ELSE 2 * Pow2(n - 1)

RECURSIVE BNorm(_)
BNorm(a) ==
    IF a = <<>> THEN <<>>
    ELSE IF a[Len(a)] = 0 THEN BNorm(SubSeq(a, 1, Len(a) - 1))
         ELSE a

Limb(a, i) == IF i <= Len(a) THEN a[i] ELSE 0

RECURSIVE BFromInt(_)
BFromInt(n) ==
    IF n = 0 THEN <<>>
    ELSE <<n % LimbBase>> \o BFromInt(n \div LimbBase)

RECURSIVE BAddFrom(_, _, _, _)
BAddFrom(a, b, i, carry) ==
    IF i > Len(a) /\ i > Len(b)
    THEN IF carry = 0 THEN <<>> ELSE <<carry>>
    ELSE LET sum == Limb(a, i) + Limb(b, i) + carry
         IN  <<sum % LimbBase>> \o BAddFrom(a, b, i + 1, sum \div LimbBase)

BAdd(a, b) == BAddFrom(a, b, 1, 0)

RECURSIVE BSubFrom(_, _, _, _)
BSubFrom(a, b, i, borrow) ==
    IF i > Len(a) THEN <<>>
    ELSE LET diff == a[i] - Limb(b, i) - borrow
         IN  IF diff < 0
             THEN <<diff + LimbBase>> \o BSubFrom(a, b, i + 1, 1)
             ELSE <<diff>> \o BSubFrom(a, b, i + 1, 0)

\* a - b for a >= b
BSub(a, b) == BNorm(BSubFrom(a, b, 1, 0))

RECURSIVE BCmpFrom(_, _, _)
BCmpFrom(a, b, i) ==
    IF i = 0 THEN 0
    ELSE IF a[i] < b[i] THEN -1
         ELSE IF a[i] > b[i] THEN 1
              ELSE BCmpFrom(a, b, i - 1)

\* -1, 0 or 1 as a < b, a = b or a > b
BCmp(a, b) ==
    IF Len(a) < Len(b) THEN -1
    ELSE IF Len(a) > Len(b) THEN 1
         ELSE BCmpFrom(a, b, Len(a))

RECURSIVE BMulSmallFrom(_, _, _, _)
BMulSmallFrom(a, d, i, carry) ==
    IF i > Len(a)
    THEN IF carry = 0 THEN <<>> ELSE <<carry>>
    ELSE LET prod == a[i] * d + carry
         IN  <<prod % LimbBase>>
                \o BMulSmallFrom(a, d, i + 1, prod \div LimbBase)

\* a * d for a digit d
BMulSmall(a, d) == BNorm(BMulSmallFrom(a, d, 1, 0))

RECURSIVE BShiftLimbs(_, _)
BShiftLimbs(a, n) ==
    IF a = <<>> \/ n = 0 THEN a ELSE <<0>> \o BShiftLimbs(a, n - 1)

RECURSIVE BMulFrom(_, _, _)
BMulFrom(a, b, j) ==
    IF j > Len(b) THEN <<>>
    ELSE BAdd(BShiftLimbs(BMulSmall(a, b[j]), j - 1), BMulFrom(a, b, j + 1))

BMul(a, b) == BMulFrom(a, b, 1)

\* a * 2^bits
BShl(a, bits) ==
    BShiftLimbs(BMulSmall(a, Pow2(bits % LimbBits)), bits \div LimbBits)

RECURSIVE BDivSmallFrom(_, _, _, _)
BDivSmallFrom(a, d, i, rem) ==
    IF i = 0 THEN <<>>
    ELSE LET cur == rem * LimbBase + a[i]
         IN  BDivSmallFrom(a, d, i - 1, cur % d) \o <<cur \div d>>

\* a \div 2^bits
BShr(a, bits) ==
    LET dropped == IF bits \div LimbBits >= Len(a) THEN <<>>
                   ELSE SubSeq(a, bits \div LimbBits + 1, Len(a))
    IN  BNorm(BDivSmallFrom(dropped, Pow2(bits % LimbBits), Len(dropped), 0))

RECURSIVE IntBitLen(_)
IntBitLen(n) == IF n = 0 THEN 0 ELSE 1 + IntBitLen(n \div 2)

\* the number of bits of a
BBitLen(a) ==
    IF a = <<>> THEN 0
    ELSE LimbBits * (Len(a) - 1) + IntBitLen(a[Len(a)])

BIsOdd(a) == a # <<>> /\ a[1] % 2 = 1

\* the largest digit d in lo .. hi with b * d <= cur
RECURSIVE BQuotDigit(_, _, _, _)
BQuotDigit(cur, b, lo, hi) ==
    IF lo = hi THEN lo
    ELSE LET mid == (lo + hi + 1) \div 2
         IN  IF BCmp(BMulSmall(b, mid), cur) <= 0
             THEN BQuotDigit(cur, b, mid, hi)
             ELSE BQuotDigit(cur, b, lo, mid - 1)

\* long division, digit i of a downwards: qr holds the quotient and the
\* remainder of the digits above i
RECURSIVE BDivFrom(_, _, _, _)
BDivFrom(a, b, i, qr) ==
    IF i = 0 THEN [quot |-> BNorm(qr.quot), rem |-> qr.rem]
    ELSE LET cur == BNorm(<<a[i]>> \o qr.rem)
             digit == BQuotDigit(cur, b, 0, LimbBase - 1)
         IN  BDivFrom(a, b, i - 1,
                      [quot |-> <<digit>> \o qr.quot,
                       rem |-> BSub(cur, BMulSmall(b, digit))])

\* a \div b and a % b, for b # 0
BDivMod(a, b) == BDivFrom(a, b, Len(a), [quot |-> <<>>, rem |-> <<>>])

\* a finite double: sign, significand and exponent
Dbl(sign, m, e) == [sign |-> sign, m |-> m, e |-> e]

DZero == Dbl(1, <<>>, 0)

DIsZero(a) == a.m = <<>>

\* sign * n * 2^e rounded to a double: to nearest, ties to even
DRound(sign, n, e) ==
    LET len == BBitLen(n)
        shift == len - Precision
    IN  IF n = <<>> THEN DZero
        ELSE IF len <= Precision
             THEN Dbl(sign, BShl(n, Precision - len), e - (Precision - len))
             ELSE LET quot == BShr(n, shift)
                      rem == BSub(n, BShl(quot, shift))
                      half == BCmp(rem, BShl(<<1>>, shift - 1))
                      up == half > 0 \/ (half = 0 /\ BIsOdd(quot))
                      m == IF up THEN BAdd(quot, <<1>>) ELSE quot
                  IN  IF BBitLen(m) > Precision
                      THEN Dbl(sign, BShr(m, 1), e + shift + 1)
                      ELSE Dbl(sign, m, e + shift)

\* the double of an integer
DInt(n) == DRound(IF n < 0 THEN -1 ELSE 1, BFromInt(Abs(n)), 0)

\* a * b
DMul(a, b) == DRound(a.sign * b.sign, BMul(a.m, b.m), a.e + b.e)

\* a - b
DSub(a, b) ==
    IF DIsZero(b) THEN a
    ELSE IF DIsZero(a) THEN Dbl(0 - b.sign, b.m, b.e)
    ELSE LET e == IF a.e < b.e THEN a.e ELSE b.e
             am == BShl(a.m, a.e - e)
             bm == BShl(b.m, b.e - e)
         IN  IF a.sign # b.sign THEN DRound(a.sign, BAdd(am, bm), e)
             ELSE IF BCmp(am, bm) >= 0
                  THEN DRound(a.sign, BSub(am, bm), e)
                  ELSE DRound(0 - a.sign, BSub(bm, am), e)

\* abs(a)
DAbs(a) == Dbl(1, a.m, a.e)

\* a / b for b # 0: the quotient of the significands to Precision + 4
\* bits and one more bit that is 1 when the division leaves a remainder
DDiv(a, b) ==
    IF DIsZero(a) THEN DZero
    ELSE LET qr == BDivMod(BShl(a.m, Precision + 4), b.m)
             sticky == IF qr.rem = <<>> THEN <<>> ELSE <<1>>
         IN  DRound(a.sign * b.sign, BAdd(BShl(qr.quot, 1), sticky),
                    a.e - b.e - (Precision + 4) - 1)

\* -1, 0 or 1 as a < b, a = b or a > b, for a >= 0 and b >= 0
DCmp(a, b) ==
    IF DIsZero(a) THEN (IF DIsZero(b) THEN 0 ELSE -1)
    ELSE IF DIsZero(b) THEN 1
    ELSE IF a.e < b.e THEN -1
    ELSE IF a.e > b.e THEN 1
    ELSE BCmp(a.m, b.m)

\* the float of a decimal literal n/d, as float('0.1') of 1/10
DLiteral(n, d) == DDiv(DInt(n), DInt(d))


(***************************************************************************)
(* Datasets.  A record of a dataset has the columns FlowName, FacilityID   *)
(* and FlowAmount; an absent cell of a key column is Missing.              *)
(***************************************************************************)
Missing == "NaN"

\* the (FlowName, FacilityID) pairs of the records of the inventory (a
\* flow may have no facility) and of the reference
InventoryKeys == {<<"CO2", "F1">>, <<"SO2", "F1">>, <<"CO2", Missing>>}
ReferenceKeys == {<<"CO2", "F1">>, <<"SO2", "F1">>}
\* the FlowAmount cells of the records of the inventory and of the
\* reference (NaN is a missing amount, which line 46 or 47 turns into 0.0)
InventoryAmounts == {NaN, Fin(95), Fin(100)}
ReferenceAmounts == {NaN, Fin(100), PosInf, NegInf}

RecordsOf(keys, amounts) ==
    {[FlowName |-> rk[1], FacilityID |-> rk[2], FlowAmount |-> a] :
        rk \in keys, a \in amounts}

InventoryRecords == RecordsOf(InventoryKeys, InventoryAmounts)
ReferenceRecords == RecordsOf(ReferenceKeys, ReferenceAmounts)

GroupBys == {"flow", "facility"}
\* the four modes of group_by
AllGroupBys == {"flow", "state", "facility", "subpart"}
Tolerances == {Fin(5)}


(***************************************************************************)
(* The tables of validate_inventory.                                       *)
(***************************************************************************)
\* the columns of the modelled datasets
Columns == {"FlowName", "FacilityID", "FlowAmount"}

\* the column sets of the datasets of the four modes, with and without a
\* Compartment column
Shapes ==
    {Columns,
     {"FlowName", "Compartment", "FacilityID", "FlowAmount"},
     {"State", "FlowName", "FlowAmount"},
     {"FlowName", "SubpartName", "FlowAmount"}}

\* the records of a dataset of all the columns
WideRecords(amounts) ==
    [FlowName : {"CO2", "SO2"}, Compartment : {"air", "water"},
     FacilityID : {"F1"}, State : {"AK", "TX"}, SubpartName : {"C", "D"},
     FlowAmount : amounts]

\* the records of a dataset of the given columns
ShapeRecords(columns, amounts) ==
    {[c \in columns |-> r[c]] : r \in WideRecords(amounts)}

GroupByColumns_Narrow(group_by, inventory_columns) ==
    CASE group_by = "flow" -> <<"FlowName">>
      [] group_by = "state" -> <<"State">>
      [] group_by = "facility" -> <<"FlowName", "FacilityID">>
      [] group_by = "subpart" -> <<"FlowName", "SubpartName">>

\* group_by_columns, lines 36-45 ('Compartment' in inventory_df.keys()
\* is decided from the inventory's columns)
GroupByColumns(group_by, inventory_columns) ==
    CASE group_by = "flow" ->
            IF "Compartment" \in inventory_columns
            THEN <<"FlowName", "Compartment">>
            ELSE <<"FlowName">>
      [] group_by = "state" -> <<"State">>
      [] group_by = "facility" -> <<"FlowName", "FacilityID">>
      [] group_by = "subpart" -> <<"FlowName", "SubpartName">>

(***************************************************************************)
(* FlowAmount given as strings, lines 30-35.  A string cell holds the      *)
(* characters of the string.                                               *)
(***************************************************************************)
Str(chars) == [k |-> "str", s |-> chars]

Digits == {"0", "1", "2", "3", "4", "5", "6", "7", "8", "9"}

DigitValue(c) ==
    CASE c = "0" -> 0 [] c = "1" -> 1 [] c = "2" -> 2 [] c = "3" -> 3
      [] c = "4" -> 4 [] c = "5" -> 5 [] c = "6" -> 6 [] c = "7" -> 7
      [] c = "8" -> 8 [] c = "9" -> 9

NotComma(c) == c # ","
IsPoint(c) == c = "."

StripCommas_None(chars) == chars

\* str.replace(',', ''): every comma is removed
StripCommas(chars) == SelectSeq(chars, NotComma)

\* the strings to_numeric parses, among the strings of digits, points and
\* other characters: digits with at most one decimal point
IsNumeral(chars) ==
    /\ \A i \in DOMAIN chars : chars[i] \in Digits \cup {"."}
    /\ Len(SelectSeq(chars, IsPoint)) <= 1
    /\ \E i \in DOMAIN chars : chars[i] \in Digits

\* the integer the first i characters spell, the point left out
RECURSIVE DigitsValue(_, _)
DigitsValue(chars, i) ==
    IF i = 0 THEN 0
    ELSE IF chars[i] = "." THEN DigitsValue(chars, i - 1)
         ELSE 10 * DigitsValue(chars, i - 1) + DigitValue(chars[i])

RECURSIVE Pow10(_)
Pow10(e) == IF e = 0 THEN 1 ELSE 10 * Pow10(e - 1)

\* the number of digits after the decimal point
FractionDigits(chars) ==
    IF \E i \in DOMAIN chars : chars[i] = "."
    THEN Len(chars) - (CHOOSE i \in DOMAIN chars : chars[i] = ".")
    ELSE 0

\* the number a numeral spells
NumeralValue(chars) ==
    Rat(DigitsValue(chars, Len(chars)), Pow10(FractionDigits(chars)))

\* is_string_dtype(df['FlowAmount']): a column that holds a string has
\* the object dtype, a column of numbers has not
IsStringDtype(df) == \E i \in DOMAIN df : df[i].FlowAmount.k = "str"

\* df['FlowAmount'].str.replace(',', ''), lines 31 and 34: a cell that is
\* not a string becomes NaN
ReplaceCommas(df) ==
    [i \in DOMAIN df |->
        [df[i] EXCEPT !.FlowAmount =
            IF @.k = "str" THEN Str(StripCommas(@.s)) ELSE NaN]]

\* pd.to_numeric raises ValueError on a string it cannot parse
ToNumericRaises(df) ==
    \E i \in DOMAIN df :
        df[i].FlowAmount.k = "str" /\ ~IsNumeral(df[i].FlowAmount.s)

\* pd.to_numeric(df['FlowAmount']), lines 32 and 35
ToNumeric(df) ==
    [i \in DOMAIN df |->
        [df[i] EXCEPT !.FlowAmount =
            IF @.k = "str" THEN NumeralValue(@.s) ELSE @]]

\* lines 30-32 or 33-35 on one dataset, up to the call of to_numeric
Stripped(df) == IF IsStringDtype(df) THEN ReplaceCommas(df) ELSE df

\* Series.fillna(0.0) on the FlowAmount column
FillAmounts(df) ==
    [i \in DOMAIN df |->
        IF IsNaN(df[i].FlowAmount)
        THEN [df[i] EXCEPT !.FlowAmount = Fin(0)]
        ELSE df[i]]

\* the key tuple of a record under the group-by columns
KeyOf(row, cols) == [c \in 1 .. Len(cols) |-> row[cols[c]]]

HasMissing(key) == \E c \in DOMAIN key : key[c] = Missing

\* the sort order of the key values (lexicographic order of the strings)
ValueRank(v) ==
    CASE v = "AK" -> 1
      [] v = "C" -> 2
      [] v = "CO2" -> 3
      [] v = "Carbon Monoxide" -> 4
      [] v = "Carbon dioxide" -> 5
      [] v = "D" -> 6
      [] v = "Electricity" -> 7
      [] v = "F1" -> 8
      [] v = "Heat" -> 9
      [] v = "Methane" -> 10
      [] v = "Nitrogen oxides" -> 11
      [] v = "Nitrous oxide" -> 12
      [] v = "SO2" -> 13
      [] v = "Steam" -> 14
      [] v = "Sulfur Dioxide" -> 15
      [] v = "Sulfur dioxide" -> 16
      [] v = "TX" -> 17
      [] v = "air" -> 18
      [] v = "input" -> 19
      [] v = "output" -> 20
      [] v = "water" -> 21
      [] OTHER -> 22

KeyLess(a, b) ==
    \E i \in DOMAIN a :
        /\ ValueRank(a[i]) < ValueRank(b[i])
        /\ \A j \in 1 .. (i - 1) : a[j] = b[j]

RECURSIVE SortKeys(_)
SortKeys(S) ==
    IF S = {} THEN <<>>
    ELSE LET m == CHOOSE k \in S : \A o \in S \ {k} : KeyLess(k, o)
         IN  <<m>> \o SortKeys(S \ {m})

\* the sum of FlowAmount over the first i records of df with the given
\* key, in row order, as pandas before 1.2 adds them
RECURSIVE NaiveSum(_, _, _, _)
NaiveSum(df, cols, key, i) ==
    IF i = 0 THEN Fin(0)
    ELSE IF KeyOf(df[i], cols) = key
         THEN FAdd(NaiveSum(df, cols, key, i - 1), df[i].FlowAmount)
         ELSE NaiveSum(df, cols, key, i - 1)

\* one step of the compensated (Kahan) summation of pandas 1.2 and later:
\* after an infinite amount the compensation is inf - inf = NaN
KahanStep(acc, val) ==
    LET y == FSub(val, acc.compensation)
        t == FAdd(acc.sumx, y)
    IN  [sumx |-> t, compensation |-> FSub(FSub(t, acc.sumx), y)]

RECURSIVE KahanSum(_, _, _, _)
KahanSum(df, cols, key, i) ==
    IF i = 0 THEN [sumx |-> Fin(0), compensation |-> Fin(0)]
    ELSE IF KeyOf(df[i], cols) = key
         THEN KahanStep(KahanSum(df, cols, key, i - 1), df[i].FlowAmount)
         ELSE KahanSum(df, cols, key, i - 1)

\* the sum of FlowAmount over the records of df with the given key: the
\* result depends on the pandas installed when an amount is infinite
SumGroup(df, cols, key, kahan) ==
    IF kahan THEN KahanSum(df, cols, key, Len(df)).sumx
    ELSE NaiveSum(df, cols, key, Len(df))

\* the keys groupby forms: records with an absent key value are dropped
\* (groupby's default dropna=True)
GroupKeys(df, cols) ==
    {k \in {KeyOf(df[i], cols) : i \in DOMAIN df} : ~HasMissing(k)}

\* df[cols + ['FlowAmount']].groupby(cols).sum().reset_index(): one row
\* per key, sorted by key
GroupBySum(df, cols, kahan) ==
    LET keys == SortKeys(GroupKeys(df, cols))
    IN  [g \in DOMAIN keys |->
            [key |-> keys[g],
             FlowAmount |-> SumGroup(df, cols, keys[g], kahan)]]

\* the amount of the key in an aggregated table, NaN if the key is absent
Lookup(sums, key) ==
    IF \E g \in DOMAIN sums : sums[g].key = key
    THEN sums[CHOOSE g \in DOMAIN sums : sums[g].key = key].FlowAmount
    ELSE NaN

\* a left join: the keys of the reference only are lost
MergeOuter_Left(left, right) ==
    LET keys == SortKeys({left[g].key : g \in DOMAIN left})
    IN  [m \in DOMAIN keys |->
            [key |-> keys[m],
             FlowAmount_x |-> Lookup(left, keys[m]),
             FlowAmount_y |-> Lookup(right, keys[m])]]

\* inventory_sums.merge(reference_sums, how='outer', on=cols) with the
\* default sort=False of pandas 1.x: one row per key of either table, the
\* keys of the left table in its order, then the keys of the right table
\* only in its order, NaN for the absent side
MergeOuter(left, right) ==
    LET InLeft(k) == \E g \in DOMAIN left : left[g].key = k
        keys == [g \in DOMAIN left |-> left[g].key]
                   \o SelectSeq([g \in DOMAIN right |-> right[g].key],
                                LAMBDA k : ~InLeft(k))
    IN  [m \in DOMAIN keys |->
            [key |-> keys[m],
             FlowAmount_x |-> Lookup(left, keys[m]),
             FlowAmount_y |-> Lookup(right, keys[m])]]

\* validation_df.fillna(0.0)
FillMerged(df) ==
    [m \in DOMAIN df |->
        [key |-> df[m].key,
         FlowAmount_x |-> IF IsNaN(df[m].FlowAmount_x) THEN Fin(0)
                          ELSE df[m].FlowAmount_x,
         FlowAmount_y |-> IF IsNaN(df[m].FlowAmount_y) THEN Fin(0)
                          ELSE df[m].FlowAmount_y]]

(***************************************************************************)
(* The classification of one joined row, lines 63-105.                     *)
(***************************************************************************)
BothZero == "Both inventory and reference are zero or null"
RefInfinity == "Reference contains infinity values. Check prior calculations."
InvZero == "Inventory value is zero or null"
RefZero == "Reference value is zero or null"
Identical == "Identical"
Similar == "Statistically similar"
Exceeds == "Percent difference exceeds tolerance"

Conclusions ==
    {BothZero, RefInfinity, InvZero, RefZero, Identical, Similar, Exceeds}

\* what one iteration appends to amount_x_list, amount_y_list,
\* pct_diff_list and conclusion (a sequence: the last branch may append
\* nothing), and what it adds to error_count
Entry(x, y, pct, concl, err) ==
    [amount_x |-> x, amount_y |-> y, pct_diff |-> pct,
     conclusion |-> concl, error |-> err]

PctDiff(amount_x, amount_y) ==
    FDiv(FMul(Fin(100), FAbs(FSub(amount_y, amount_x))), amount_y)

\* the inventory amount is 0.0, lines 66-81
ZeroInventory(amount_x, amount_y) ==
    IF FEq(amount_y, Fin(0))
    THEN Entry(amount_x, amount_y, Fin(0), <<BothZero>>, 0)
    ELSE IF FEq(amount_y, PosInf)
         THEN Entry(amount_x, NaN, Fin(100), <<RefInfinity>>, 0)
         ELSE Entry(amount_x, amount_y, Fin(100), <<InvZero>>, 1)

\* the reference amount is 0.0, lines 83-87
ZeroReference(amount_x, amount_y) ==
    Entry(amount_x, amount_y, Fin(100), <<RefZero>>, 0)

InfiniteReference_Counted(amount_x) ==
    Entry(amount_x, NaN, Fin(100), <<RefInfinity>>, 1)

\* the reference amount is +infinity, lines 89-93
InfiniteReference(amount_x) ==
    Entry(amount_x, NaN, Fin(100), <<RefInfinity>>, 0)

Compare_Exclusive(amount_x, amount_y, tol) ==
    LET pct_diff == PctDiff(amount_x, amount_y)
    IN  IF FEq(pct_diff, Fin(0))
        THEN Entry(amount_x, amount_y, pct_diff, <<Identical>>, 0)
        ELSE IF FLt(pct_diff, tol)
             THEN Entry(amount_x, amount_y, pct_diff, <<Similar>>, 0)
             ELSE Entry(amount_x, amount_y, pct_diff, <<Exceeds>>, 1)

\* the percent difference against the tolerance, lines 95-105; no branch
\* is taken when the percent difference is NaN
Compare(amount_x, amount_y, tol) ==
    LET pct_diff == PctDiff(amount_x, amount_y)
    IN  IF FEq(pct_diff, Fin(0))
        THEN Entry(amount_x, amount_y, pct_diff, <<Identical>>, 0)
        ELSE IF FLe(pct_diff, tol)
             THEN Entry(amount_x, amount_y, pct_diff, <<Similar>>, 0)
             ELSE IF FGt(pct_diff, tol)
                  THEN Entry(amount_x, amount_y, pct_diff, <<Exceeds>>, 1)
                  ELSE Entry(amount_x, amount_y, pct_diff, <<>>, 0)

ClassifyRow_CompareFirst(amount_x, amount_y, tol) ==
    IF FEq(amount_x, Fin(0)) /\ FEq(amount_y, Fin(0))
    THEN ZeroInventory(amount_x, amount_y)
    ELSE IF FEq(amount_y, Fin(0))
         THEN ZeroReference(amount_x, amount_y)
         ELSE IF FEq(amount_y, PosInf)
              THEN InfiniteReference(amount_x)
              ELSE Compare(amount_x, amount_y, tol)

\* one iteration of the loop, lines 63-105
ClassifyRow(amount_x, amount_y, tol) ==
    IF FEq(amount_x, Fin(0))
    THEN ZeroInventory(amount_x, amount_y)
    ELSE IF FEq(amount_y, Fin(0))
         THEN ZeroReference(amount_x, amount_y)
         ELSE IF FEq(amount_y, PosInf)
              THEN InfiniteReference(amount_x)
              ELSE Compare(amount_x, amount_y, tol)

\* the loop over the joined rows, lines 62-105
Loop(df, tol) ==
    [m \in DOMAIN df |->
        ClassifyRow(df[m].FlowAmount_x, df[m].FlowAmount_y, tol)]

AmountXList(entries) == [m \in DOMAIN entries |-> entries[m].amount_x]
AmountYList(entries) == [m \in DOMAIN entries |-> entries[m].amount_y]
PctDiffList(entries) == [m \in DOMAIN entries |-> entries[m].pct_diff]

\* the conclusion list after the first i iterations
RECURSIVE ConclusionList(_, _)
ConclusionList(entries, i) ==
    IF i = 0 THEN <<>>
    ELSE ConclusionList(entries, i - 1) \o entries[i].conclusion

\* error_count after the first i iterations
RECURSIVE ErrorCount(_, _)
ErrorCount(entries, i) ==
    IF i = 0 THEN 0
    ELSE ErrorCount(entries, i - 1) + entries[i].error

(***************************************************************************)
(* State.                                                                  *)
(***************************************************************************)
VARIABLES
    pandas_kahan,      \* the pandas installed sums groups with
                       \* compensation (1.2 and later) or without
    inventory_columns, \* inventory_df.keys()
    reference_columns, \* reference_df.keys()
    inventory_df,      \* the caller's inventory dataset
    reference_df,      \* the caller's reference dataset
    group_by,          \* the group_by argument of the last call
    inventory_sums,    \* lines 48-49
    reference_sums,    \* lines 50-51
    merged,            \* validation_df after lines 54-56
    amount_x_list,     \* line 57
    amount_y_list,     \* line 58
    pct_diff_list,     \* line 59
    conclusion,        \* line 60
    error_count,       \* line 61
    loop_trace,        \* what each iteration of the loop appended and counted
    tolerance,         \* the tolerance argument of the last call
    validation_df,     \* the frame validate_inventory returns
    outcome,           \* "none" before a call, "returned" or the exception
    rerun,             \* in the reruns: the last call repeated the
                       \* arguments of the call before it, on the datasets
                       \* that call left
    log,               \* the records the last call logged
    reference_csv,     \* the file reference_sums is written to
    v_table,           \* ValidationSets_Sources.csv
    validation_dict,   \* the caller's dictionary of the last ledger call
    ledger_outcome,    \* "none", "returned" or the exception
    today,             \* the day datetime.today() gave when last called
    ledger_args,       \* the arguments of the last ledger call
    ledger_repeat,     \* whether the last ledger call repeated the
                       \* arguments of the call before it, and when
    written,           \* the files the last write_validation_result wrote
    write_log,         \* the records the last write_validation_result logged
    write_outcome,     \* "none" or "returned"
    nei_r,             \* NEI.generate_national_totals: r after line 154
    http_requests,     \* the requests the last call sent
    nei_log,           \* the records the last call logged
    national_totals,   \* the NEI_<year>_NationalTotals.csv files
    nei_outcome,       \* "none", "returned" or the exception
    flowbyfac,         \* egrid.py: flowbyfac after the merge of line 213
    flowbyfac_scored,  \* flowbyfac after line 233
    egrid_step,        \* "merged" before line 216, "scored" after line 233
    scale_inv,         \* an inventory amount, a double
    scale_ref,         \* a reference amount, a double
    scale_k,           \* a factor, a double
    scaled_inv,        \* scale_k * scale_inv
    scaled_ref,        \* scale_k * scale_ref
    plain_row,         \* the report row of (scale_inv, scale_ref)
    scaled_row,        \* the report row of (scaled_inv, scaled_ref)
    scale_step,        \* "amounts", "scaled" or "validated"
    egrid_totals,      \* the files eGRID_<year>_NationalTotals.csv
    run_inventory,     \* "NEI" in validate_national_totals, "eGRID" in
                       \* validate_eGRID
    run_year,          \* the year of the run
    run_pc,            \* the position of the run
    run_existed,       \* what os.path.exists returned
    run_ledger,        \* the ledger when the run was called
    run_trace,         \* the steps of the run so far
    run_log,           \* what the run itself has logged
    run_outcome        \* "none", "returned" or the exception raised

validate_vars ==
    <<pandas_kahan, inventory_columns, reference_columns, group_by,
      inventory_df, reference_df, inventory_sums, reference_sums, merged,
      amount_x_list, amount_y_list, pct_diff_list, conclusion, error_count,
      loop_trace, tolerance, validation_df, outcome, rerun, log,
      reference_csv>>

ledger_vars ==
    <<v_table, validation_dict, ledger_outcome, today, ledger_args,
      ledger_repeat>>

report_vars == <<written, write_log, write_outcome>>

totals_vars == <<nei_r, http_requests, nei_log, national_totals, nei_outcome>>

egrid_vars == <<flowbyfac, flowbyfac_scored, egrid_step>>

scale_vars ==
    <<scale_inv, scale_ref, scale_k, scaled_inv, scaled_ref, plain_row,
      scaled_row, scale_step>>

run_vars ==
    <<egrid_totals, run_inventory, run_year, run_pc, run_existed,
      run_ledger, run_trace, run_log, run_outcome>>

vars ==
    <<validate_vars, ledger_vars, report_vars, totals_vars, egrid_vars,
      scale_vars, run_vars>>

NoFile == [written |-> FALSE, rows |-> <<>>]

\* no call yet: the datasets are empty and the locals of the call are unset
\* validate_inventory has not been called
ValidateUncalled ==
    /\ pandas_kahan \in BOOLEAN
    /\ group_by = ""
    /\ inventory_sums = <<>>
    /\ reference_sums = <<>>
    /\ merged = <<>>
    /\ amount_x_list = <<>>
    /\ amount_y_list = <<>>
    /\ pct_diff_list = <<>>
    /\ conclusion = <<>>
    /\ error_count = 0
    /\ loop_trace = <<>>
    /\ tolerance = Fin(5)
    /\ validation_df = <<>>
    /\ outcome = "none"
    /\ rerun = FALSE
    /\ log = <<>>
    /\ reference_csv = NoFile

ValidateIdle ==
    /\ inventory_df = <<>>
    /\ reference_df = <<>>
    /\ ValidateUncalled

ValidateInit ==
    /\ inventory_columns = Columns
    /\ reference_columns = Columns
    /\ ValidateIdle

(***************************************************************************)
(* The caller builds the two datasets, then calls validate_inventory.      *)
(***************************************************************************)
AddInventoryRecord(r) ==
    /\ outcome = "none"
    /\ Len(inventory_df) + Len(reference_df) < MaxRecords
    /\ inventory_df' = Append(inventory_df, r)
    /\ UNCHANGED <<pandas_kahan, inventory_columns, reference_columns,
                   group_by, rerun,
                   reference_df, inventory_sums, reference_sums, merged,
                   amount_x_list, amount_y_list, pct_diff_list, conclusion,
                   error_count, loop_trace, tolerance, validation_df, outcome,
                   log, reference_csv>>
    /\ UNCHANGED <<ledger_vars, report_vars, totals_vars, egrid_vars,
                   scale_vars, run_vars>>

AddReferenceRecord(r) ==
    /\ outcome = "none"
    /\ Len(inventory_df) + Len(reference_df) < MaxRecords
    /\ reference_df' = Append(reference_df, r)
    /\ UNCHANGED <<pandas_kahan, inventory_columns, reference_columns,
                   group_by, rerun,
                   inventory_df, inventory_sums, reference_sums, merged,
                   amount_x_list, amount_y_list, pct_diff_list, conclusion,
                   error_count, loop_trace, tolerance, validation_df, outcome,
                   log, reference_csv>>
    /\ UNCHANGED <<ledger_vars, report_vars, totals_vars, egrid_vars,
                   scale_vars, run_vars>>

\* a column of the list is not a column of the dataset: selecting it
\* (line 48 or 50) raises KeyError
KeyColumnsMissing(cols, columns) ==
    \E c \in DOMAIN cols : cols[c] \notin columns

\* the call stops with an exception before the join: the tables of the
\* later lines are never built
RaisedBeforeJoin(exception) ==
    /\ outcome' = exception
    /\ merged' = <<>>
    /\ loop_trace' = <<>>
    /\ amount_x_list' = <<>>
    /\ amount_y_list' = <<>>
    /\ pct_diff_list' = <<>>
    /\ conclusion' = <<>>
    /\ error_count' = 0
    /\ validation_df' = <<>>
    /\ log' = <<>>
    /\ UNCHANGED reference_csv

\* lines 54-115: the join, the loop, the report
JoinAndClassify(tol, filepath) ==
    /\ reference_csv' = IF filepath # ""
                        THEN [written |-> TRUE, rows |-> reference_sums']
                        ELSE reference_csv
    /\ merged' = FillMerged(MergeOuter(inventory_sums', reference_sums'))
    /\ loop_trace' = Loop(merged', tol)
    /\ amount_x_list' = AmountXList(loop_trace')
    /\ amount_y_list' = AmountYList(loop_trace')
    /\ pct_diff_list' = PctDiffList(loop_trace')
    /\ conclusion' = ConclusionList(loop_trace', Len(loop_trace'))
    /\ error_count' = ErrorCount(loop_trace', Len(loop_trace'))
    /\ IF Len(conclusion') # Len(merged')
       THEN \* line 109: the length of the list does not match the frame
            /\ outcome' = "ValueError"
            /\ validation_df' = <<>>
            /\ log' = <<>>
       ELSE /\ outcome' = "returned"
            /\ validation_df' =
                  [m \in DOMAIN merged' |->
                      [key |-> merged'[m].key,
                       Inventory_Amount |-> amount_x_list'[m],
                       Reference_Amount |-> amount_y_list'[m],
                       Percent_Difference |-> pct_diff_list'[m],
                       Conclusion |-> conclusion'[m]]]
            /\ log' = IF error_count' > 0
                      THEN <<[level |-> "warning", count |-> error_count']>>
                      ELSE <<>>

\* lines 48-115 on the parsed and filled datasets
AggregateAndJoin(group_by_columns, tol, filepath) ==
    IF KeyColumnsMissing(group_by_columns, inventory_columns)
    THEN /\ inventory_sums' = <<>>
         /\ reference_sums' = <<>>
         /\ RaisedBeforeJoin("KeyError")
    ELSE IF KeyColumnsMissing(group_by_columns, reference_columns)
         THEN /\ inventory_sums' =
                     GroupBySum(inventory_df', group_by_columns,
                                pandas_kahan)
              /\ reference_sums' = <<>>
              /\ RaisedBeforeJoin("KeyError")
         ELSE /\ inventory_sums' =
                     GroupBySum(inventory_df', group_by_columns,
                                pandas_kahan)
              /\ reference_sums' =
                     GroupBySum(reference_df', group_by_columns,
                                pandas_kahan)
              /\ JoinAndClassify(tol, filepath)

\* validate_inventory(inventory_df, reference_df, group_by, tolerance,
\* filepath), lines 16-115; what is not the function's is left to the
\* caller
ValidateInventoryBody(g, tol, filepath) ==
    /\ group_by' = g
    /\ tolerance' = tol
    /\ UNCHANGED <<pandas_kahan, inventory_columns, reference_columns>>
    /\ IF ToNumericRaises(Stripped(inventory_df))
       THEN \* line 32 raises: line 31 has replaced the column
            /\ inventory_df' = Stripped(inventory_df)
            /\ reference_df' = reference_df
            /\ inventory_sums' = <<>>
            /\ reference_sums' = <<>>
            /\ RaisedBeforeJoin("ValueError")
       ELSE IF ToNumericRaises(Stripped(reference_df))
            THEN \* line 35 raises: the inventory has been parsed
                 /\ inventory_df' = ToNumeric(Stripped(inventory_df))
                 /\ reference_df' = Stripped(reference_df)
                 /\ inventory_sums' = <<>>
                 /\ reference_sums' = <<>>
                 /\ RaisedBeforeJoin("ValueError")
            ELSE /\ inventory_df' =
                        FillAmounts(ToNumeric(Stripped(inventory_df)))
                 /\ reference_df' =
                        FillAmounts(ToNumeric(Stripped(reference_df)))
                 /\ AggregateAndJoin(GroupByColumns(g, inventory_columns),
                                     tol, filepath)
    /\ UNCHANGED <<ledger_vars, report_vars, totals_vars, egrid_vars,
                   scale_vars>>

\* a call of validate_inventory by itself
ValidateInventory(g, tol, filepath) ==
    /\ ValidateInventoryBody(g, tol, filepath)
    /\ UNCHANGED <<rerun, run_vars>>

ValidateNext ==
    \/ \E r \in InventoryRecords : AddInventoryRecord(r)
    \/ \E r \in ReferenceRecords : AddReferenceRecord(r)
    \/ \E g \in GroupBys, t \in Tolerances, f \in {"", "reference_sums.csv"} :
          ValidateInventory(g, t, f)


(***************************************************************************)
(* The provenance ledger, update_validationsets_sources, lines 160-186.    *)
(***************************************************************************)
Inventories == {"NEI", "eGRID"}
Years == {"2011", "2014", "2017"}
\* the version the configuration gives for a year (NEI.py 142,
\* egrid.py 353), and the version of the records already in the file
ConfigVersion == "v1"
FileVersion == "v0"
\* the days the calls are made on: the day the model starts and the next
Days == {1, 2}
\* datetime.today().strftime('%d-%b-%Y') on a day, line 168
StrfTime(day) ==
    CASE day = 1 -> "29-Oct-2026"
      [] OTHER -> "30-Oct-2026"
\* a date the caller supplies with date_acquired=True
SuppliedDate == "01-Jan-2020"

\* the dictionaries generate_national_totals builds (NEI.py 196-203,
\* egrid.py 352-359); 'Date Acquired' is absent unless the caller sets it
SourceRecord(inv, year, version, date) ==
    [Inventory |-> inv,
     Version |-> version,
     Year |-> year,
     Name |-> IF inv = "NEI" THEN "NEI Data" ELSE "eGRID Data Files",
     URL |-> IF inv = "NEI" THEN "national_url" ELSE "download_url",
     Criteria |-> IF inv = "NEI" THEN "summed to national level"
                  ELSE "Extracted from US Total tab",
     Date_Acquired |-> date]

SameKey(a, b) == a.Inventory = b.Inventory /\ a.Year = b.Year

\* the rows of the table with their index, doubled so that i + 0.5 is
\* the integer 2 * i + 1
Indexed(table) ==
    [i \in DOMAIN table |-> [index2 |-> 2 * (i - 1), row |-> table[i]]]

\* existing.index, lines 171-172
ExistingIndex(table, d) ==
    {i \in 0 .. (Len(table) - 1) : SameKey(table[i + 1], d)}

\* the locations of the records of the same Inventory, lines 178-180
InventoryLocs(table, d) ==
    {loc \in 0 .. (Len(table) - 1) : table[loc + 1].Inventory = d.Inventory}

SetMin(S) == CHOOSE x \in S : \A y \in S : x <= y
SetMax(S) == CHOOSE x \in S : \A y \in S : x >= y

\* the rows of the existing record are kept
DropExisting_Kept(rows, existing) == rows

\* v_table.loc[~v_table.index.isin(existing.index)], line 175
RECURSIVE DropExisting(_, _)
DropExisting(rows, existing) ==
    IF rows = <<>> THEN <<>>
    ELSE IF (Head(rows).index2 \div 2) \in existing
         THEN DropExisting(Tail(rows), existing)
         ELSE <<Head(rows)>> \o DropExisting(Tail(rows), existing)

\* the new line always gets the index after the last row
LineIndex_AtEnd(table, d) == 2 * Len(table)

\* the new line goes after the first record of the Inventory
LineIndex_AfterFirst(table, d) ==
    IF ExistingIndex(table, d) # {}
    THEN 2 * SetMin(ExistingIndex(table, d))
    ELSE 2 * SetMin(InventoryLocs(table, d)) + 1

\* the doubled index of the new line: i (line 176) or i + 0.5 (line 181)
LineIndex(table, d) ==
    IF ExistingIndex(table, d) # {}
    THEN 2 * SetMin(ExistingIndex(table, d))
    ELSE 2 * SetMax(InventoryLocs(table, d)) + 1

\* the position of the row with the smallest index
MinPos(rows) ==
    CHOOSE p \in DOMAIN rows :
        \A q \in DOMAIN rows :
            \/ rows[p].index2 < rows[q].index2
            \/ rows[p].index2 = rows[q].index2 /\ p <= q

RemoveAt(rows, p) ==
    [q \in 1 .. (Len(rows) - 1) |-> IF q < p THEN rows[q] ELSE rows[q + 1]]

\* sort_index(), line 183
RECURSIVE SortIndex(_)
SortIndex(rows) ==
    IF rows = <<>> THEN <<>>
    ELSE <<rows[MinPos(rows)]>> \o SortIndex(RemoveAt(rows, MinPos(rows)))

\* the table the call writes back, lines 173-183
Upserted(table, d) ==
    LET existing == ExistingIndex(table, d)
        kept == IF existing # {} THEN DropExisting(Indexed(table), existing)
                ELSE Indexed(table)
        line == [index2 |-> LineIndex(table, d), row |-> d]
        sorted == SortIndex(Append(kept, line))
    IN  [i \in DOMAIN sorted |-> sorted[i].row]

\* max() of an empty sequence raises ValueError, line 179
UpsertRaises(table, d) ==
    ExistingIndex(table, d) = {} /\ InventoryLocs(table, d) = {}

\* lines 167-186 on the ledger
\* the clock is read at line 168 only, and does not go back from one
\* reading to the next
UpsertLedger(dict, date_acquired) ==
    \E day \in IF date_acquired THEN {today}
                ELSE {n \in Days : n >= today} :
        LET d == IF ~date_acquired
                 THEN [dict EXCEPT !.Date_Acquired = StrfTime(day)]
                 ELSE dict
            args == [validation_dict |-> dict,
                     date_acquired |-> date_acquired]
        IN  /\ \/ ExistingIndex(v_table, d) # {}
               \/ Len(v_table) < MaxLedger
            /\ today' = day
            /\ ledger_args' = args
            /\ ledger_repeat' =
                  IF ledger_outcome = "none" \/ args # ledger_args
                  THEN "first"
                  ELSE IF day = today THEN "same day" ELSE "later day"
            /\ validation_dict' = d
            /\ IF UpsertRaises(v_table, d)
               THEN /\ ledger_outcome' = "ValueError"
                    /\ v_table' = v_table
               ELSE /\ ledger_outcome' = "returned"
                    /\ v_table' = Upserted(v_table, d)

UpdateValidationsetsSources(dict, date_acquired) ==
    /\ UpsertLedger(dict, date_acquired)
    /\ UNCHANGED <<validate_vars, report_vars, totals_vars, egrid_vars,
                   scale_vars, run_vars>>

UniqueKeys(table) ==
    \A i, j \in DOMAIN table : SameKey(table[i], table[j]) => i = j

\* the records a ledger file holds before the model starts
InitialRecords ==
    {SourceRecord(inv, year, FileVersion, SuppliedDate) :
        inv \in Inventories, year \in Years}

InitialLedgers ==
    {<<>>} \cup {<<a>> : a \in InitialRecords}
        \cup {t \in {<<a, b>> : a \in InitialRecords, b \in InitialRecords} :
                ~SameKey(t[1], t[2])}

\* no dictionary has been passed yet
NoDict ==
    [Inventory |-> "", Version |-> "", Year |-> "", Name |-> "", URL |-> "",
     Criteria |-> "", Date_Acquired |-> Missing]

LedgerIdle ==
    /\ validation_dict = NoDict
    /\ ledger_outcome = "none"
    /\ today = 1
    /\ ledger_args = [validation_dict |-> NoDict, date_acquired |-> FALSE]
    /\ ledger_repeat = "none"

LedgerNext ==
    \E inv \in Inventories, year \in Years, date_acquired \in BOOLEAN :
        UpdateValidationsetsSources(
            SourceRecord(inv, year, ConfigVersion,
                         IF date_acquired THEN SuppliedDate ELSE Missing),
            date_acquired)

(***************************************************************************)
(* write_validation_result, lines 125-157.                                 *)
(***************************************************************************)
\* the name of a file of the validation directory
FileName(inventory_acronym, year, extension) ==
    <<inventory_acronym, "_", year, extension>>

\* the rows of the ledger of the inventory and year, lines 139-141
RECURSIVE ValidationSetInfo(_, _, _, _)
ValidationSetInfo(table, inventory_acronym, year, i) ==
    IF i = 0 THEN <<>>
    ELSE ValidationSetInfo(table, inventory_acronym, year, i - 1)
            \o (IF /\ table[i].Inventory = inventory_acronym
                   /\ table[i].Year = year
                THEN <<table[i]>>
                ELSE <<>>)

\* the entries lines 148-152 set in the copy of source_metadata
ValidationMetadata(validation_set_info) ==
    [SourceFileName |-> validation_set_info.Name,
     SourceVersion |-> validation_set_info.Version,
     SourceURL |-> validation_set_info.URL,
     SourceAcquisitionTime |-> validation_set_info.Date_Acquired,
     Criteria |-> validation_set_info.Criteria]

MetadataMissing_WhenNone(validation_set_info) ==
    Len(validation_set_info) = 0

\* line 142
MetadataMissing(validation_set_info) == Len(validation_set_info) # 1

ReportIdle ==
    /\ written = <<>>
    /\ write_log = <<>>
    /\ write_outcome = "none"

WriteValidationResultBody(inventory_acronym, year, df) ==
    LET validation_set_info ==
            ValidationSetInfo(v_table, inventory_acronym, year, Len(v_table))
        result ==
            [file |-> FileName(inventory_acronym, year, ".csv"),
             content |-> df]
        metadata ==
            [file |-> FileName(inventory_acronym, year, "_metadata.json"),
             content |-> ValidationMetadata(validation_set_info[1])]
    IN  /\ write_outcome' = "returned"
        /\ IF MetadataMissing(validation_set_info)
           THEN /\ written' = <<result>>
                /\ write_log' =
                      <<[level |-> "info",
                         msg |-> "writing validation result"],
                        [level |-> "error",
                         msg |-> "no validation metadata found"]>>
           ELSE /\ written' = <<result, metadata>>
                /\ write_log' =
                      <<[level |-> "info",
                         msg |-> "writing validation result"]>>
        /\ UNCHANGED <<validate_vars, ledger_vars, totals_vars, egrid_vars,
                       scale_vars>>

\* a call of write_validation_result by itself
WriteValidationResult(inventory_acronym, year, df) ==
    /\ WriteValidationResultBody(inventory_acronym, year, df)
    /\ UNCHANGED run_vars

\* the reports written: an empty one and one of a single row
ReportFrames ==
    {<<>>,
     <<[key |-> <<"CO2">>, Inventory_Amount |-> Fin(95),
        Reference_Amount |-> Fin(100), Percent_Difference |-> Fin(5),
        Conclusion |-> Similar]>>}

\* the ledgers write_validation_result may read: the file may hold a key
\* twice
ReportRecords ==
    InitialRecords
       \cup {SourceRecord(inv, year, ConfigVersion, StrfTime(1)) :
                inv \in Inventories, year \in Years}

ReportLedgers ==
    {<<>>} \cup {<<a>> : a \in ReportRecords}
           \cup {<<a, b>> : a \in ReportRecords, b \in ReportRecords}


(***************************************************************************)
(* NEI.generate_national_totals, NEI.py lines 130-204.                     *)
(***************************************************************************)
\* the body of a response that is not a zip archive
NotAZip == [zip |-> FALSE, rows |-> <<>>]

\* r = [], line 147
EmptyList == [kind |-> "list", status |-> 0, body |-> NotAZip]

\* the rows of the .csv files of an archive: pollutant code, total
\* emissions, unit
ArchiveRows ==
    {[FlowID |-> "SO2", FlowName |-> "Sulfur Dioxide", FlowAmount |-> 1,
      UOM |-> "LB"],
     [FlowID |-> "SO2", FlowName |-> "Sulfur Dioxide", FlowAmount |-> 1,
      UOM |-> "TON"],
     [FlowID |-> "CO", FlowName |-> "Carbon Monoxide", FlowAmount |-> 2,
      UOM |-> "LB"]}

RECURSIVE RowsUpTo(_)
RowsUpTo(n) ==
    IF n = 0 THEN {<<>>}
    ELSE RowsUpTo(n - 1)
            \cup {Append(a, row) : a \in RowsUpTo(n - 1), row \in ArchiveRows}

\* the archives: the rows of their .csv files, none if the archive holds
\* no .csv file
Archives == {[zip |-> TRUE, rows |-> a] : a \in RowsUpTo(MaxArchiveRows)}

\* what requests.Session().get does: it raises ConnectionError or returns
\* a response with a status and a body
Responses ==
    {[kind |-> "ConnectionError", status |-> 0, body |-> NotAZip]}
       \cup [kind : {"response"}, status : {200, 404},
             body : {NotAZip} \cup Archives]

\* lines 185-186: the amount in kg as the multiples of lb_kg and
\* USton_kg; every unit but 'LB' is taken as a short ton
InKg(row) ==
    IF row.UOM = "LB" THEN [lb_kg |-> row.FlowAmount, USton_kg |-> 0]
    ELSE [lb_kg |-> 0, USton_kg |-> row.FlowAmount]

RECURSIVE SumFlow(_, _, _)
SumFlow(rows, flow, i) ==
    IF i = 0 THEN [lb_kg |-> 0, USton_kg |-> 0]
    ELSE LET rest == SumFlow(rows, flow, i - 1)
         IN  IF rows[i].FlowID = flow
             THEN [lb_kg |-> rest.lb_kg + InKg(rows[i]).lb_kg,
                   USton_kg |-> rest.USton_kg + InKg(rows[i]).USton_kg]
             ELSE rest

FlowNameOf(rows, flow) ==
    rows[CHOOSE i \in DOMAIN rows : rows[i].FlowID = flow].FlowName

\* line 189: one row per (FlowID, FlowName), sorted
NationalTotals(rows) ==
    LET flows == {rows[i].FlowID : i \in DOMAIN rows}
        sorted == IF flows = {"CO", "SO2"} THEN <<"CO", "SO2">>
                  ELSE IF flows = {"CO"} THEN <<"CO">>
                  ELSE IF flows = {"SO2"} THEN <<"SO2">>
                  ELSE <<>>
    IN  [g \in DOMAIN sorted |->
            [FlowID |-> sorted[g],
             FlowName |-> FlowNameOf(rows, sorted[g]),
             FlowAmount_kg |-> SumFlow(rows, sorted[g], Len(rows))]]

\* no file
Absent == [exists |-> FALSE, rows |-> <<>>]

TotalsIdle ==
    /\ nei_r = EmptyList
    /\ http_requests = 0
    /\ nei_log = <<>>
    /\ national_totals = [year \in Years |-> Absent]
    /\ nei_outcome = "none"

\* how the call ends when r.raise_for_status() (line 153) or
\* zipfile.ZipFile (line 158) raises: "" if neither does
DownloadRaises(response) ==
    IF response.kind = "ConnectionError" THEN "AttributeError"
    ELSE IF response.body = NotAZip THEN "BadZipFile"
    ELSE ""

\* the records lines 138-156 log
DownloadLog(response) ==
    <<[level |-> "info", msg |-> "Downloading national totals"]>>
       \o (IF response.kind = "ConnectionError"
           THEN <<[level |-> "error", msg |-> "URL Connection Error"]>>
           ELSE IF response.status # 200
                THEN <<[level |-> "error", msg |-> "Error in URL request!"]>>
                ELSE <<>>)

GenerateNationalTotalsBody(year, response) ==
    /\ http_requests' = 1
    /\ nei_r' = IF response.kind = "ConnectionError" THEN EmptyList ELSE response
    /\ IF DownloadRaises(response) # ""
       THEN /\ nei_outcome' = DownloadRaises(response)
            /\ nei_log' = DownloadLog(response)
            /\ UNCHANGED <<national_totals, ledger_vars>>
       ELSE IF response.body.rows = <<>>
            THEN \* line 183: four names for a frame without columns
                 /\ nei_outcome' = "ValueError"
                 /\ nei_log' = DownloadLog(response)
                 /\ UNCHANGED <<national_totals, ledger_vars>>
            ELSE /\ nei_log' =
                       DownloadLog(response)
                          \o <<[level |-> "info",
                                msg |-> "saving NationalTotals.csv"]>>
                 /\ national_totals' =
                       [national_totals EXCEPT
                           ![year] =
                              [exists |-> TRUE,
                               rows |-> NationalTotals(response.body.rows)]]
                 /\ UpsertLedger(
                       SourceRecord("NEI", year, ConfigVersion, Missing),
                       FALSE)
                 /\ nei_outcome' = ledger_outcome'
    /\ UNCHANGED <<validate_vars, report_vars, egrid_vars, scale_vars>>

\* a call of generate_national_totals by itself
GenerateNationalTotals(year, response) ==
    /\ GenerateNationalTotalsBody(year, response)
    /\ UNCHANGED run_vars


(***************************************************************************)
(* The data reliability scores of egrid.generate_eGRID_files, egrid.py     *)
(* lines 216-233.                                                          *)
(***************************************************************************)
\* the rows of flowbyfac after the merge of line 213: the flow, the
\* plant's primary fuel, and the score aggregated from the unit level,
\* NaN for a flow without one
EgridFlowNames == {"Electricity", "Methane", "Nitrous oxide", "Carbon dioxide"}
PrimaryFuels == {"PG", "RC", "WC", "SLW", "NG"}
UnitLevelScores == {NaN, Fin(2)}

FlowByFacRows ==
    [FlowName : EgridFlowNames, Plant_primary_fuel : PrimaryFuels,
     DataReliability : UnitLevelScores]

\* lines 216-217
ElectricityAndFill(row) ==
    IF row.FlowName = "Electricity"
    THEN [row EXCEPT !.DataReliability = Fin(1)]
    ELSE IF IsNaN(row.DataReliability)
         THEN [row EXCEPT !.DataReliability = Fin(5)]
         ELSE row

IsMethaneOrNitrousOxide(row) ==
    row.FlowName = "Methane" \/ row.FlowName = "Nitrous oxide"

\* lines 222-224
AssignThree(row) ==
    IF IsMethaneOrNitrousOxide(row)
    THEN [row EXCEPT !.DataReliability = Fin(3)]
    ELSE row

\* the fuel condition of lines 228-231, a disjunction of inequalities
FuelCondition(fuel) ==
    fuel # "PG" \/ fuel # "RC" \/ fuel # "WC" \/ fuel # "SLW"

\* lines 226-232
ChangeToTwo(row) ==
    IF IsMethaneOrNitrousOxide(row) /\ FuelCondition(row.Plant_primary_fuel)
    THEN [row EXCEPT !.DataReliability = Fin(2)]
    ELSE row

EgridIdle ==
    /\ flowbyfac = <<>>
    /\ flowbyfac_scored = <<>>
    /\ egrid_step = "merged"

\* a row of the merge of line 213
AddFlow(row) ==
    /\ egrid_step = "merged"
    /\ Len(flowbyfac) < MaxFlows
    /\ flowbyfac' = Append(flowbyfac, row)
    /\ UNCHANGED <<flowbyfac_scored, egrid_step>>
    /\ UNCHANGED <<validate_vars, ledger_vars, report_vars, totals_vars,
                   scale_vars, run_vars>>

\* lines 216-233
AssignDataReliability ==
    /\ egrid_step = "merged"
    /\ egrid_step' = "scored"
    /\ flowbyfac_scored' =
          [i \in DOMAIN flowbyfac |->
              ChangeToTwo(AssignThree(ElectricityAndFill(flowbyfac[i])))]
    /\ UNCHANGED flowbyfac
    /\ UNCHANGED <<validate_vars, ledger_vars, report_vars, totals_vars,
                   scale_vars, run_vars>>

EgridNext ==
    \/ \E row \in FlowByFacRows : AddFlow(row)
    \/ AssignDataReliability

(***************************************************************************)
(* The validation runs: NEI.validate_national_totals, NEI.py lines         *)
(* 207-223, and egrid.validate_eGRID, egrid.py lines 276-300.              *)
(***************************************************************************)
RunIdle ==
    /\ egrid_totals = [year \in Years |-> Absent]
    /\ run_inventory = ""
    /\ run_year = ""
    /\ run_pc = "idle"
    /\ run_existed = FALSE
    /\ run_ledger = <<>>
    /\ run_trace = <<>>
    /\ run_log = <<>>
    /\ run_outcome = "none"

\* the conversion factors of stewi.globals: kg per pound and per short
\* ton, MJ per MMBtu and per MWh
lb_kg == Rat(4535924, 10000000)
USton_kg == Rat(90718474, 100000)
MMBtu_MJ == Rat(1055056, 1000)
MWh_MJ == Fin(3600)

\* a * b of two finite values, the fractions reduced before they are
\* multiplied
Times(a, b) == FMul(Rat(a.n, b.d), Rat(b.n, a.d))

\* the amount of a row of NEI_<year>_NationalTotals.csv in kg
KgAmount(total) ==
    FAdd(Times(Fin(total.lb_kg), lb_kg), Times(Fin(total.USton_kg), USton_kg))

\* the archives a run downloads: 80000000 pounds of sulfur dioxide, and
\* with them 50000 short tons of carbon monoxide
RunArchiveRows ==
    <<[FlowID |-> "SO2", FlowName |-> "Sulfur Dioxide",
       FlowAmount |-> 80000000, UOM |-> "LB"],
      [FlowID |-> "CO", FlowName |-> "Carbon Monoxide",
       FlowAmount |-> 50000, UOM |-> "TON"]>>

RunResponses ==
    {[kind |-> "ConnectionError", status |-> 0, body |-> NotAZip],
     [kind |-> "response", status |-> 404, body |-> NotAZip],
     [kind |-> "response", status |-> 200,
      body |-> [zip |-> TRUE, rows |-> <<>>]],
     [kind |-> "response", status |-> 200,
      body |-> [zip |-> TRUE, rows |-> SubSeq(RunArchiveRows, 1, 1)]],
     [kind |-> "response", status |-> 200,
      body |-> [zip |-> TRUE, rows |-> RunArchiveRows]]}

\* the file a run may find: the totals of the first archive
ExistingTotals ==
    [exists |-> TRUE, rows |-> NationalTotals(SubSeq(RunArchiveRows, 1, 1))]

\* pd.read_csv and the renaming of the amount column, NEI.py lines 215-219
ReadNationalTotals(file) ==
    [i \in DOMAIN file.rows |->
        [FlowID |-> file.rows[i].FlowID,
         FlowName |-> file.rows[i].FlowName,
         FlowAmount |-> KgAmount(file.rows[i].FlowAmount_kg)]]

\* the flow by facility inventories of NEI (NEI.py line 264): none, the
\* reference amount (36287392 kg), one within the tolerance (3.125
\* percent less) and one beyond it (25 percent less), and a flow of which
\* the first archive has no total
NeiFlowByFacility ==
    {<<>>}
       \cup {<<[FlowName |-> "Sulfur Dioxide", FacilityID |-> "F1",
                FlowAmount |-> a]>> :
                a \in {Fin(36287392), Fin(35153411), Fin(27215544)}}
       \cup {<<[FlowName |-> "Sulfur Dioxide", FacilityID |-> "F1",
                FlowAmount |-> Fin(18143696)],
               [FlowName |-> "Sulfur Dioxide", FacilityID |-> "F2",
                FlowAmount |-> Fin(18143696)],
               [FlowName |-> "Carbon Monoxide", FacilityID |-> "F1",
                FlowAmount |-> Fin(45359237)]>>}

\* totals_dict and the row of steam, egrid.py lines 309-329, in the order
\* of the rows of the file
EgridTotalFlows ==
    <<"Heat", "Electricity", "Nitrogen oxides", "Sulfur dioxide",
      "Carbon dioxide", "Methane", "Nitrous oxide", "Steam">>

\* the rows of eGRID_flow_compartments.csv, a data file of the package
\* (egrid.py lines 331-333)
FlowCompartment(flow) ==
    CASE flow = "Heat" -> "input"
      [] flow \in {"Electricity", "Steam"} -> "output"
      [] OTHER -> "air"

\* egrid.py lines 335-346
UnitOfFlow(flow) ==
    CASE flow \in {"Carbon dioxide", "Sulfur dioxide", "Nitrogen oxides"}
            -> "tons"
      [] flow \in {"Methane", "Nitrous oxide"} -> "lbs"
      [] flow \in {"Heat", "Steam"} -> "MMBtu"
      [] OTHER -> "MWh"

\* the workbook of a year stored locally: absent, or the amounts of its
\* sheets US and PLNT by flow
NoWorkbook == [exists |-> FALSE, amounts |-> <<>>]

Workbooks ==
    {NoWorkbook,
     [exists |-> TRUE,
      amounts |-> <<Fin(125), Fin(1), Fin(50000), Fin(50000), Fin(50000),
                    Fin(2500000), Fin(2500000), Fin(250)>>]}

\* us_totals of egrid.py line 348
EgridNationalTotals(workbook) ==
    [i \in DOMAIN EgridTotalFlows |->
        [FlowName |-> EgridTotalFlows[i],
         Compartment |-> FlowCompartment(EgridTotalFlows[i]),
         FlowAmount |-> workbook.amounts[i],
         Unit |-> UnitOfFlow(EgridTotalFlows[i])]]

\* egrid.generate_national_totals(year), egrid.py lines 303-360:
\* pd.read_excel (line 125) raises FileNotFoundError without the workbook
EgridGenerateRaises(workbook) == ~workbook.exists

EgridGenerateNationalTotalsBody(year, workbook) ==
    IF EgridGenerateRaises(workbook)
    THEN UNCHANGED <<egrid_totals, ledger_vars>>
    ELSE /\ egrid_totals' =
               [egrid_totals EXCEPT
                   ![year] = [exists |-> TRUE,
                              rows |-> EgridNationalTotals(workbook)]]
         /\ UpsertLedger(SourceRecord("eGRID", year, ConfigVersion, Missing),
                         FALSE)

\* unit_convert of stewi.globals, called four times (egrid.py lines
\* 284-295): the amounts of the rows of the unit are multiplied by the
\* factor
UnitConvert(df, unit, factor) ==
    [i \in DOMAIN df |->
        IF df[i].Unit = unit
        THEN [df[i] EXCEPT !.FlowAmount = Times(df[i].FlowAmount, factor)]
        ELSE df[i]]

\* egrid.py lines 282-297: the file is read, the amounts are converted
\* and the Unit column is dropped
ReadEgridTotals(file) ==
    LET converted ==
            UnitConvert(
                UnitConvert(
                    UnitConvert(UnitConvert(file.rows, "lbs", lb_kg),
                                "tons", USton_kg),
                    "MMBtu", MMBtu_MJ),
                "MWh", MWh_MJ)
    IN  [i \in DOMAIN converted |->
            [FlowName |-> converted[i].FlowName,
             Compartment |-> converted[i].Compartment,
             FlowAmount |-> converted[i].FlowAmount]]

\* the flowbyfac of eGRID (egrid.py line 242): none, and the electricity
\* of a plant equal to the total (3600 MJ), within the tolerance (2.5
\* percent less) and beyond it (25 percent less)
EgridFlowByFac ==
    {<<>>}
       \cup {<<[FlowName |-> "Electricity", Compartment |-> "output",
                FacilityID |-> "F1", FlowAmount |-> a]>> :
                a \in {Fin(3600), Fin(3510), Fin(2700)}}

\* the national totals file of the run
RunTotalsFile ==
    IF run_inventory = "NEI" THEN national_totals[run_year]
    ELSE egrid_totals[run_year]

Info(msg) == [level |-> "info", msg |-> msg]

\* how the step after which the run goes on, or ends with an exception,
\* leaves the position of the run
RunGoesOn(pc, exception) ==
    IF exception \in {"none", "returned"}
    THEN run_pc' = pc /\ run_outcome' = "none"
    ELSE run_pc' = "raised" /\ run_outcome' = exception

\* NEI.py lines 210-214: the file is generated unless it exists
NeiEnsureTotals ==
    /\ run_pc = "called"
    /\ run_inventory = "NEI"
    /\ run_existed' = RunTotalsFile.exists
    /\ IF RunTotalsFile.exists
       THEN /\ run_trace' = <<"os.path.exists">>
            /\ run_log' =
                  <<Info("validating flow by facility against national totals"),
                    Info("using already processed national totals")>>
            /\ RunGoesOn("ensured", "none")
            /\ UNCHANGED <<validate_vars, ledger_vars, report_vars,
                           totals_vars, egrid_vars, scale_vars>>
       ELSE /\ run_trace' = <<"os.path.exists", "generate_national_totals">>
            /\ run_log' =
                  <<Info("validating flow by facility against national totals")>>
            /\ \E response \in RunResponses :
                  GenerateNationalTotalsBody(run_year, response)
            /\ RunGoesOn("ensured", nei_outcome')
    /\ UNCHANGED <<egrid_totals, run_inventory, run_year, run_ledger>>

\* egrid.py lines 278-280: the file is generated unless it exists
EgridEnsureTotals ==
    /\ run_pc = "called"
    /\ run_inventory = "eGRID"
    /\ run_existed' = RunTotalsFile.exists
    /\ IF RunTotalsFile.exists
       THEN /\ run_trace' = <<"os.path.exists">>
            /\ run_log' = <<>>
            /\ RunGoesOn("ensured", "none")
            /\ UNCHANGED <<egrid_totals, ledger_vars>>
       ELSE /\ run_trace' = <<"os.path.exists", "generate_national_totals">>
            /\ \E workbook \in Workbooks :
                  /\ EgridGenerateNationalTotalsBody(run_year, workbook)
                  /\ IF EgridGenerateRaises(workbook)
                     THEN /\ run_log' =
                                <<Info("Processing eGRID national totals")>>
                          /\ RunGoesOn("ensured", "FileNotFoundError")
                     ELSE /\ run_log' =
                                <<Info("Processing eGRID national totals"),
                                  Info("saving NationalTotals.csv")>>
                          /\ RunGoesOn("ensured", ledger_outcome')
    /\ UNCHANGED <<validate_vars, report_vars, totals_vars, egrid_vars,
                   scale_vars>>
    /\ UNCHANGED <<run_inventory, run_year, run_ledger>>

\* NEI.py lines 215-219, egrid.py lines 281-297: the file is read into
\* the reference dataset
ReadTotals ==
    /\ run_pc = "ensured"
    /\ run_pc' = "read"
    /\ run_trace' = Append(run_trace, "read_csv")
    /\ IF run_inventory = "NEI"
       THEN /\ reference_df' = ReadNationalTotals(RunTotalsFile)
            /\ reference_columns' = {"FlowID", "FlowName", "FlowAmount"}
            /\ run_log' = run_log
       ELSE /\ reference_df' = ReadEgridTotals(RunTotalsFile)
            /\ reference_columns' = {"FlowName", "Compartment", "FlowAmount"}
            /\ run_log' =
                  Append(run_log,
                         Info("validating data against national totals"))
    /\ UNCHANGED <<pandas_kahan, inventory_columns, inventory_df, group_by,
                   inventory_sums, rerun,
                   reference_sums, merged, amount_x_list, amount_y_list,
                   pct_diff_list, conclusion, error_count, loop_trace,
                   tolerance, validation_df, outcome, log, reference_csv>>
    /\ UNCHANGED <<ledger_vars, report_vars, totals_vars, egrid_vars,
                   scale_vars>>
    /\ UNCHANGED <<egrid_totals, run_inventory, run_year, run_existed,
                   run_ledger, run_outcome>>

\* NEI.py lines 220-222, egrid.py lines 298-299
RunValidateInventory ==
    /\ run_pc = "read"
    /\ run_trace' = Append(run_trace, "validate_inventory")
    /\ ValidateInventoryBody("flow", Fin(5), "")
    /\ RunGoesOn("validated", outcome')
    /\ UNCHANGED <<rerun, egrid_totals, run_inventory, run_year,
                   run_existed, run_ledger, run_log>>

\* NEI.py line 223, egrid.py line 300
RunWriteValidationResult ==
    /\ run_pc = "validated"
    /\ run_pc' = "done"
    /\ run_outcome' = "returned"
    /\ run_trace' = Append(run_trace, "write_validation_result")
    /\ WriteValidationResultBody(run_inventory, run_year, validation_df)
    /\ UNCHANGED <<egrid_totals, run_inventory, run_year, run_existed,
                   run_ledger, run_log>>

RunNext ==
    \/ NeiEnsureTotals
    \/ EgridEnsureTotals
    \/ ReadTotals
    \/ RunValidateInventory
    \/ RunWriteValidationResult

(***************************************************************************)
(* validate_inventory on amounts and on their multiples, in double         *)
(* precision.  Each dataset has one record, of the same key, so the sums   *)
(* of lines 48-51 are the amounts themselves and the join has one row.     *)
(***************************************************************************)
DEntry(pct, concl, err) ==
    [pct_diff |-> pct, conclusion |-> concl, error |-> err]

DPctDiff_ByInventory(amount_x, amount_y) ==
    DDiv(DMul(DInt(100), DAbs(DSub(amount_y, amount_x))), amount_x)

\* line 95
DPctDiff(amount_x, amount_y) ==
    DDiv(DMul(DInt(100), DAbs(DSub(amount_y, amount_x))), amount_y)

\* lines 95-105
DCompare(amount_x, amount_y, tol) ==
    LET pct_diff == DPctDiff(amount_x, amount_y)
    IN  IF DIsZero(pct_diff) THEN DEntry(pct_diff, Identical, 0)
        ELSE IF DCmp(pct_diff, tol) <= 0 THEN DEntry(pct_diff, Similar, 0)
             ELSE DEntry(pct_diff, Exceeds, 1)

\* lines 63-105 for finite amounts, the inventory amount not negative
\* and the reference amount positive or zero
DClassifyRow(amount_x, amount_y, tol) ==
    IF DIsZero(amount_x)
    THEN IF DIsZero(amount_y) THEN DEntry(DZero, BothZero, 0)
         ELSE DEntry(DInt(100), InvZero, 1)
    ELSE IF DIsZero(amount_y) THEN DEntry(DInt(100), RefZero, 0)
         ELSE DCompare(amount_x, amount_y, tol)

\* the amounts and the factors
ScaleInventoryAmounts == {DInt(0), DInt(1), DInt(19), DInt(21), DInt(95)}
ScaleReferenceAmounts == {DInt(3), DInt(20), DInt(100)}
ScaleFactors ==
    {DInt(2), DLiteral(1, 4), DInt(3), DLiteral(1, 10), DLiteral(1, 3)}

NoRow == DEntry(DZero, "", 0)

ScaleIdle ==
    /\ scale_inv = DZero
    /\ scale_ref = DZero
    /\ scale_k = DZero
    /\ scaled_inv = DZero
    /\ scaled_ref = DZero
    /\ plain_row = NoRow
    /\ scaled_row = NoRow
    /\ scale_step = "amounts"

\* the caller multiplies both amounts by the factor
ScaleAmounts ==
    /\ scale_step = "amounts"
    /\ scale_step' = "scaled"
    /\ scaled_inv' = DMul(scale_k, scale_inv)
    /\ scaled_ref' = DMul(scale_k, scale_ref)
    /\ UNCHANGED <<scale_inv, scale_ref, scale_k, plain_row, scaled_row>>
    /\ UNCHANGED <<validate_vars, ledger_vars, report_vars, totals_vars,
                   egrid_vars, run_vars>>

\* validate_inventory on the amounts and on their multiples
ValidateScaled(tol) ==
    /\ scale_step = "scaled"
    /\ scale_step' = "validated"
    /\ plain_row' = DClassifyRow(scale_inv, scale_ref, tol)
    /\ scaled_row' = DClassifyRow(scaled_inv, scaled_ref, tol)
    /\ UNCHANGED <<scale_inv, scale_ref, scale_k, scaled_inv, scaled_ref>>
    /\ UNCHANGED <<validate_vars, ledger_vars, report_vars, totals_vars,
                   egrid_vars, run_vars>>

ScaleInit ==
    /\ ValidateInit
    /\ v_table = <<>>
    /\ LedgerIdle
    /\ ReportIdle
    /\ TotalsIdle
    /\ EgridIdle
    /\ scale_inv \in ScaleInventoryAmounts
    /\ scale_ref \in ScaleReferenceAmounts
    /\ scale_k \in ScaleFactors
    /\ scaled_inv = DZero
    /\ scaled_ref = DZero
    /\ plain_row = NoRow
    /\ scaled_row = NoRow
    /\ scale_step = "amounts"
    /\ RunIdle

ScaleNext ==
    \/ ScaleAmounts
    \/ ValidateScaled(DInt(5))

ScaleSpec == ScaleInit /\ [][ScaleNext]_vars

(***************************************************************************)
(* Specifications.                                                         *)
(***************************************************************************)
Init ==
    /\ ValidateInit
    /\ v_table = <<>>
    /\ LedgerIdle
    /\ ReportIdle
    /\ TotalsIdle
    /\ EgridIdle
    /\ ScaleIdle
    /\ RunIdle

Next == ValidateNext

Spec == Init /\ [][Next]_vars

LedgerStart ==
    /\ ValidateInit
    /\ v_table \in InitialLedgers
    /\ LedgerIdle
    /\ ReportIdle
    /\ TotalsIdle
    /\ EgridIdle
    /\ ScaleIdle
    /\ RunIdle

\* update_validationsets_sources sums nothing: its behaviours are the
\* same under either pandas
LedgerInit ==
    /\ LedgerStart
    /\ pandas_kahan

LedgerSpec == LedgerInit /\ [][LedgerNext]_vars

\* Reruns.  validate_inventory and update_validationsets_sources share no
\* state, so a behaviour exercises one of them any number of times: the
\* validation against the empty ledger, or the ledger with no dataset.
\* a call of validate_inventory, marked when it repeats the call before it
RerunValidateInventory(g, tol, filepath) ==
    /\ ValidateInventoryBody(g, tol, filepath)
    /\ rerun' = (outcome # "none" /\ g = group_by /\ tol = tolerance)
    /\ UNCHANGED run_vars

RerunNext ==
    \/ /\ v_table = <<>>
       /\ ledger_outcome = "none"
       /\ \/ \E r \in InventoryRecords : AddInventoryRecord(r)
          \/ \E r \in ReferenceRecords : AddReferenceRecord(r)
          \/ \E g \in GroupBys, t \in Tolerances :
                RerunValidateInventory(g, t, "")
    \/ /\ inventory_df = <<>>
       /\ reference_df = <<>>
       /\ outcome = "none"
       /\ LedgerNext

\* the ledger file holds at most one record when the behaviour starts
RerunInit ==
    /\ LedgerStart
    /\ Len(v_table) <= 1

RerunSpec == RerunInit /\ [][RerunNext]_vars

\* Datasets of any of the column sets, validated under any of the modes.
ShapeInit ==
    /\ inventory_columns \in Shapes
    /\ reference_columns \in Shapes
    /\ ValidateIdle
    /\ v_table = <<>>
    /\ LedgerIdle
    /\ ReportIdle
    /\ TotalsIdle
    /\ EgridIdle
    /\ ScaleIdle
    /\ RunIdle

ShapeNext ==
    \/ /\ Len(inventory_df) + Len(reference_df) < MaxShapeRecords
       /\ \E r \in ShapeRecords(inventory_columns, {Fin(95)}) :
             AddInventoryRecord(r)
    \/ /\ Len(inventory_df) + Len(reference_df) < MaxShapeRecords
       /\ \E r \in ShapeRecords(reference_columns, {Fin(100)}) :
             AddReferenceRecord(r)
    \/ \E g \in AllGroupBys, t \in Tolerances : ValidateInventory(g, t, "")

ShapeSpec == ShapeInit /\ [][ShapeNext]_vars

\* Datasets whose FlowAmount cells are strings or numbers.
ParseKeys == {<<"CO2", "F1">>, <<"SO2", "F1">>}
ParseInventoryAmounts ==
    {Str(<<"1", ",", "0", "0", "0", ".", "0", "0">>),
     Str(<<"9", "5", "0">>),
     Str(<<"n", "/", "a">>),
     Fin(1000)}
ParseReferenceAmounts ==
    {Str(<<"1", ",", "0", "0", "0">>), Fin(1000), NaN}

ParseNext ==
    \/ /\ Len(inventory_df) + Len(reference_df) < MaxParseRecords
       /\ \E r \in RecordsOf(ParseKeys, ParseInventoryAmounts) :
             AddInventoryRecord(r)
    \/ /\ Len(inventory_df) + Len(reference_df) < MaxParseRecords
       /\ \E r \in RecordsOf({<<"CO2", "F1">>}, ParseReferenceAmounts) :
             AddReferenceRecord(r)
    \/ \E g \in GroupBys, t \in Tolerances : ValidateInventory(g, t, "")

ParseSpec == Init /\ [][ParseNext]_vars

\* Calls of write_validation_result on a ledger file.
ReportInit ==
    /\ ValidateInit
    /\ v_table \in ReportLedgers
    /\ LedgerIdle
    /\ ReportIdle
    /\ TotalsIdle
    /\ EgridIdle
    /\ ScaleIdle
    /\ RunIdle

ReportNext ==
    \E inv \in Inventories, year \in Years, df \in ReportFrames :
        WriteValidationResult(inv, year, df)

ReportSpec == ReportInit /\ [][ReportNext]_vars

\* The scoring of a flowbyfac table.
EgridSpec == Init /\ [][EgridNext]_vars

\* One call of NEI.generate_national_totals on a ledger file.
TotalsNext ==
    \E year \in Years, response \in Responses :
        /\ nei_outcome = "none"
        /\ GenerateNationalTotals(year, response)

TotalsSpec == LedgerStart /\ [][TotalsNext]_vars

\* a run is called for an inventory and a year with the inventory's flow
\* by facility dataset; the ledger holds up to two records and the
\* national totals file of the year may exist
RunInit ==
    /\ run_inventory \in Inventories
    /\ run_year \in Years
    /\ inventory_columns = IF run_inventory = "NEI" THEN Columns
                           ELSE Columns \cup {"Compartment"}
    /\ inventory_df \in IF run_inventory = "NEI" THEN NeiFlowByFacility
                         ELSE EgridFlowByFac
    /\ reference_columns = Columns
    /\ reference_df = <<>>
    /\ ValidateUncalled
    /\ v_table \in InitialLedgers
    /\ LedgerIdle
    /\ ReportIdle
    /\ nei_r = EmptyList
    /\ http_requests = 0
    /\ nei_log = <<>>
    /\ nei_outcome = "none"
    /\ \E existing \in BOOLEAN :
          /\ national_totals =
                [year \in Years |->
                    IF existing /\ run_inventory = "NEI" /\ year = run_year
                    THEN ExistingTotals ELSE Absent]
          /\ egrid_totals =
                [year \in Years |->
                    IF existing /\ run_inventory = "eGRID" /\ year = run_year
                    THEN [exists |-> TRUE,
                          rows |-> EgridNationalTotals(
                                       CHOOSE w \in Workbooks : w.exists)]
                    ELSE Absent]
    /\ EgridIdle
    /\ ScaleIdle
    /\ run_pc = "called"
    /\ run_existed = FALSE
    /\ run_ledger = v_table
    /\ run_trace = <<>>
    /\ run_log = <<>>
    /\ run_outcome = "none"

RunSpec == RunInit /\ [][RunNext]_vars


(***************************************************************************)
(* Properties of validate_inventory.                                       *)
(***************************************************************************)
\* a call of validate_inventory has run
Called == outcome # "none"

\* the joined rows of the last call
JoinedRows == DOMAIN merged

InvAmount(m) == merged[m].FlowAmount_x
RefAmount(m) == merged[m].FlowAmount_y

\* iteration m appended exactly the conclusion c
Concluded(m, c) == loop_trace[m].conclusion = <<c>>

\* iteration m incremented error_count
Counted(m) == loop_trace[m].error = 1

\* the summary warning of lines 111-113 was logged with the error count
WarningLogged ==
    \E l \in DOMAIN log : log[l] = [level |-> "warning", count |-> error_count]

\* C1: every joined row whose inventory amount is nonzero and whose
\* reference amount is 0.0 gets the Conclusion 'Reference value is zero
\* or null' and Percent_Difference 100.0, and is counted in the error
\* count, so that a call that returns logs the summary warning.
C1_RefZeroCounted ==
    Called =>
        \A m \in JoinedRows :
            (~FEq(InvAmount(m), Fin(0)) /\ FEq(RefAmount(m), Fin(0))) =>
                /\ Concluded(m, RefZero)
                /\ pct_diff_list[m] = Fin(100)
                /\ Counted(m)
                /\ error_count >= 1
                /\ outcome = "returned" => WarningLogged

\* the percent-difference branch: inventory nonzero, reference nonzero
\* and not +infinity
PctBranch(m) ==
    /\ ~FEq(InvAmount(m), Fin(0))
    /\ ~FEq(RefAmount(m), Fin(0))
    /\ ~FEq(RefAmount(m), PosInf)

\* C2: a joined row in the percent-difference branch is 'Identical' when
\* Percent_Difference == 0.0, 'Statistically similar' when
\* 0 < Percent_Difference <= tolerance, 'Percent difference exceeds
\* tolerance' when Percent_Difference > tolerance, and only the last
\* increments the error count.
C2_ToleranceBranch ==
    Called =>
        \A m \in JoinedRows :
            PctBranch(m) =>
                /\ FEq(pct_diff_list[m], Fin(0)) =>
                      Concluded(m, Identical) /\ ~Counted(m)
                /\ (FGt(pct_diff_list[m], Fin(0))
                        /\ FLe(pct_diff_list[m], tolerance)) =>
                      Concluded(m, Similar) /\ ~Counted(m)
                /\ FGt(pct_diff_list[m], tolerance) =>
                      Concluded(m, Exceeds) /\ Counted(m)

\* a returned report holds a row whose percent difference equals the
\* tolerance: it is 'Statistically similar' and no warning is logged
C2_Witness ==
    /\ outcome = "returned"
    /\ \E m \in JoinedRows :
          /\ PctBranch(m)
          /\ pct_diff_list[m] = tolerance
          /\ validation_df[m].Conclusion = Similar
    /\ error_count = 0

\* C3: every joined row gets exactly one Conclusion of the fixed
\* enumeration, each of the amount, percent-difference and conclusion
\* lists gets exactly one entry per joined row, and the call returns the
\* classified frame.
C3_EveryRowClassified ==
    Called =>
        /\ Len(amount_x_list) = Len(merged)
        /\ Len(amount_y_list) = Len(merged)
        /\ Len(pct_diff_list) = Len(merged)
        /\ Len(conclusion) = Len(merged)
        /\ \A m \in JoinedRows :
              /\ Len(loop_trace[m].conclusion) = 1
              /\ loop_trace[m].conclusion[1] \in Conclusions
        /\ outcome = "returned"
        /\ Len(validation_df) = Len(merged)

TableKeys(table) == {table[g].key : g \in DOMAIN table}

\* C4: every key of the aggregated inventory or the aggregated reference
\* is the key of exactly one joined row, a key of one side only has 0.0
\* as the amount of the other side, no joined row has a key of neither
\* side, and the returned frame has these rows.
C4_OuterJoinComplete ==
    Called =>
        /\ \A key \in TableKeys(inventory_sums) \cup TableKeys(reference_sums) :
              Cardinality({m \in JoinedRows : merged[m].key = key}) = 1
        /\ \A m \in JoinedRows :
              /\ merged[m].key \in
                    TableKeys(inventory_sums) \cup TableKeys(reference_sums)
              /\ merged[m].key \notin TableKeys(inventory_sums) =>
                    InvAmount(m) = Fin(0)
              /\ merged[m].key \notin TableKeys(reference_sums) =>
                    RefAmount(m) = Fin(0)
        /\ Len(merged) >= Len(inventory_sums)
        /\ Len(merged) >= Len(reference_sums)
        /\ outcome = "returned" =>
              /\ Len(validation_df) = Len(merged)
              /\ \A m \in JoinedRows :
                    /\ validation_df[m].key = merged[m].key
                    /\ validation_df[m].Inventory_Amount = InvAmount(m)

\* a call has joined a key of the inventory only with a key of the
\* reference only
C4_Witness ==
    /\ outcome = "returned"
    /\ \E m \in JoinedRows : merged[m].key \notin TableKeys(inventory_sums)
    /\ \E m \in JoinedRows : merged[m].key \notin TableKeys(reference_sums)
    /\ Len(validation_df) = 2

\* the sum of the FlowAmount column of the first i rows
RECURSIVE TotalAmount(_, _)
TotalAmount(table, i) ==
    IF i = 0 THEN Fin(0)
    ELSE FAdd(TotalAmount(table, i - 1), table[i].FlowAmount)

\* C5: on each side the aggregated FlowAmount over all groups sums to the
\* FlowAmount over all records of the input after the missing amounts are
\* filled with 0.0.
C5_MassConserved ==
    Called =>
        /\ TotalAmount(inventory_sums, Len(inventory_sums))
              = TotalAmount(inventory_df, Len(inventory_df))
        /\ TotalAmount(reference_sums, Len(reference_sums))
              = TotalAmount(reference_df, Len(reference_df))

\* C6: a call of validate_inventory leaves the caller's inventory and
\* reference datasets, and so their FlowAmount values, as they were.
C6_InputsUnchanged ==
    [][outcome' # "none" =>
          /\ inventory_df' = inventory_df
          /\ reference_df' = reference_df]_vars

\* C7: every joined row whose reference amount is +infinity is
\* classified (it never makes the call fail): it gets the Conclusion
\* 'Reference contains infinity values. Check prior calculations.',
\* Reference_Amount NaN and Percent_Difference 100.0, and it does not
\* increment the error count.
C7_InfiniteReference ==
    Called =>
        \A m \in JoinedRows :
            FEq(RefAmount(m), PosInf) =>
                /\ Concluded(m, RefInfinity)
                /\ IsNaN(amount_y_list[m])
                /\ pct_diff_list[m] = Fin(100)
                /\ ~Counted(m)
                /\ outcome = "returned" =>
                      /\ validation_df[m].Conclusion = RefInfinity
                      /\ IsNaN(validation_df[m].Reference_Amount)
                      /\ validation_df[m].Percent_Difference = Fin(100)

\* a returned report holds an infinite reference against a zero inventory
\* and an infinite reference against a nonzero inventory, and no warning
\* was logged
C7_Witness ==
    /\ outcome = "returned"
    /\ \E m \in JoinedRows :
          FEq(RefAmount(m), PosInf) /\ FEq(InvAmount(m), Fin(0))
    /\ \E m \in JoinedRows :
          FEq(RefAmount(m), PosInf) /\ ~FEq(InvAmount(m), Fin(0))
    /\ error_count = 0
    /\ log = <<>>


(***************************************************************************)
(* Properties of update_validationsets_sources.                            *)
(***************************************************************************)
\* the positions of the ledger whose record has the key of the dictionary
KeyPositions(table, d) == {i \in DOMAIN table : SameKey(table[i], d)}

\* the positions of the ledger whose record has the Inventory of the
\* dictionary
InventoryPositions(table, d) ==
    {i \in DOMAIN table : table[i].Inventory = d.Inventory}

\* C8: the ledger holds at most one record per (Inventory, Year), and
\* after a call that returned, the record of the key of the dictionary
\* passed is that dictionary.
C8_LedgerKeysUnique ==
    /\ UniqueKeys(v_table)
    /\ ledger_outcome = "returned" =>
          /\ KeyPositions(v_table, validation_dict) # {}
          /\ \A i \in KeyPositions(v_table, validation_dict) :
                v_table[i] = validation_dict

\* a ledger of several keys, one of them still with the record of the
\* file, in which a call has put a dictionary of the configured version
C8_Witness ==
    /\ ledger_outcome = "returned"
    /\ Len(v_table) >= 2
    /\ \E i \in DOMAIN v_table : v_table[i].Version = FileVersion
    /\ validation_dict.Version = ConfigVersion
    /\ \E i \in DOMAIN v_table :
          v_table[i] = validation_dict /\ i < Len(v_table)

\* C9: a call with a dictionary whose (Inventory, Year) the ledger holds
\* puts the dictionary at the position of the record it replaces, keeps
\* the length of the ledger, and leaves every other record as and where
\* it was.
C9_ReplacedInPlace ==
    [][KeyPositions(v_table, validation_dict') # {} =>
          /\ ledger_outcome' = "returned"
          /\ Len(v_table') = Len(v_table)
          /\ \A i \in DOMAIN v_table :
                v_table'[i] = IF i \in KeyPositions(v_table, validation_dict')
                              THEN validation_dict'
                              ELSE v_table[i]]_vars

\* a call has replaced the first of several records by a record of
\* another version and date
C9_Witness ==
    /\ ledger_outcome = "returned"
    /\ Len(v_table) >= 2
    /\ v_table[1] = validation_dict
    /\ validation_dict.Version = ConfigVersion
    /\ validation_dict.Date_Acquired = StrfTime(today)
    /\ \E i \in DOMAIN v_table :
          i > 1 /\ v_table[i].Inventory = validation_dict.Inventory

\* C10: a call with a dictionary whose (Inventory, Year) the ledger does
\* not hold but whose Inventory it holds puts the dictionary right after
\* the last record of that Inventory, makes the ledger one record longer,
\* and keeps the records it held in their order.
C10_InsertedAfterLast ==
    [][(/\ KeyPositions(v_table, validation_dict') = {}
        /\ InventoryPositions(v_table, validation_dict') # {}) =>
          LET last == SetMax(InventoryPositions(v_table, validation_dict'))
          IN  /\ ledger_outcome' = "returned"
              /\ Len(v_table') = Len(v_table) + 1
              /\ v_table'[last + 1] = validation_dict'
              /\ \A i \in DOMAIN v_table :
                    v_table[i] = IF i <= last THEN v_table'[i]
                                 ELSE v_table'[i + 1]]_vars

\* a call has inserted a record between the last record of its Inventory
\* and a record of the other Inventory
C10_Witness ==
    /\ ledger_outcome = "returned"
    /\ \E i \in DOMAIN v_table :
          /\ 1 < i
          /\ i < Len(v_table)
          /\ v_table[i] = validation_dict
          /\ v_table[i - 1].Inventory = validation_dict.Inventory
          /\ v_table[i - 1].Date_Acquired = SuppliedDate
          /\ v_table[i + 1].Inventory # validation_dict.Inventory
          /\ validation_dict.Date_Acquired = StrfTime(today)

\* C11: a call with a dictionary whose (Inventory, Year) the ledger does
\* not hold returns and leaves a ledger that holds the dictionary, one
\* record longer, whatever the ledger held: also an empty ledger and a
\* ledger without a record of the Inventory of the dictionary.
C11_AbsentKeyPersisted ==
    [][KeyPositions(v_table, validation_dict') = {} =>
          /\ ledger_outcome' = "returned"
          /\ Len(v_table') = Len(v_table) + 1
          /\ KeyPositions(v_table', validation_dict') # {}]_vars

\* C12: every call of validate_inventory returns, whatever the number of
\* rows it counted as errors; the report has one row per joined key, and
\* the call logs one warning, with the error count, exactly when it
\* counted a row as an error.
C12_AlwaysReports ==
    Called =>
        /\ outcome = "returned"
        /\ Len(validation_df) = Len(merged)
        /\ \A m \in JoinedRows : validation_df[m].key = merged[m].key
        /\ error_count > 0 =>
              log = <<[level |-> "warning", count |-> error_count]>>
        /\ error_count = 0 => log = <<>>

\* C16: every joined row whose inventory amount is 0.0 and whose
\* reference amount is finite and not zero gets the Conclusion 'Inventory
\* value is zero or null' and Percent_Difference 100.0 and is counted as
\* an error; it never gets a Conclusion of the tolerance branch.
C16_ZeroInventoryFirst ==
    Called =>
        \A m \in JoinedRows :
            (/\ FEq(InvAmount(m), Fin(0))
             /\ RefAmount(m).k = "fin"
             /\ ~FEq(RefAmount(m), Fin(0))) =>
                /\ Concluded(m, InvZero)
                /\ amount_x_list[m] = Fin(0)
                /\ amount_y_list[m] = RefAmount(m)
                /\ pct_diff_list[m] = Fin(100)
                /\ Counted(m)
                /\ \A c \in {Identical, Similar, Exceeds} : ~Concluded(m, c)
                /\ outcome = "returned" =>
                      /\ validation_df[m].Conclusion = InvZero
                      /\ validation_df[m].Percent_Difference = Fin(100)

\* a returned report holds a row of inventory 0.0 against reference 100.0
\* with that Conclusion, next to a row within tolerance; the one error
\* was counted and logged
C16_Witness ==
    /\ outcome = "returned"
    /\ \E m \in JoinedRows :
          /\ FEq(InvAmount(m), Fin(0))
          /\ RefAmount(m) = Fin(100)
          /\ validation_df[m].Conclusion = InvZero
    /\ \E m \in JoinedRows : validation_df[m].Conclusion = Similar
    /\ error_count = 1
    /\ log = <<[level |-> "warning", count |-> 1]>>

\* C19: a second call of validate_inventory with the same arguments on
\* the datasets as the first call left them ends as the first call did,
\* with the same report, the same tables and the same log, and leaves the
\* datasets as they were; a second call of update_validationsets_sources
\* with the same arguments leaves the ledger as the first call left it,
\* whenever the second call is made.
C19_RerunIdempotent ==
    [][/\ (/\ outcome # "none"
           /\ group_by' = group_by
           /\ tolerance' = tolerance) =>
              /\ outcome' = outcome
              /\ validation_df' = validation_df
              /\ log' = log
              /\ merged' = merged
              /\ inventory_sums' = inventory_sums
              /\ reference_sums' = reference_sums
              /\ inventory_df' = inventory_df
              /\ reference_df' = reference_df
       /\ (/\ ledger_outcome # "none"
           /\ ledger_args' = ledger_args) =>
              /\ ledger_outcome' = ledger_outcome
              /\ v_table' = v_table]_vars

\* the ledger with the Date Acquired of the records of a key set to a day
Restamped(table, dict, day) ==
    [i \in DOMAIN table |->
        IF SameKey(table[i], dict)
        THEN [table[i] EXCEPT !.Date_Acquired = StrfTime(day)]
        ELSE table[i]]

\* C19, amended: the second call of validate_inventory is as above; a
\* second call of update_validationsets_sources with the same arguments
\* ends as the first call did and leaves the ledger as the first call
\* left it when the caller supplies the date or the call is made on the
\* day of the first call; made on a later day without a supplied date,
\* it changes the Date Acquired of the record of the key to that day and
\* nothing else.
C19_RerunIdempotentPerDay ==
    [][/\ (/\ outcome # "none"
           /\ group_by' = group_by
           /\ tolerance' = tolerance) =>
              /\ outcome' = outcome
              /\ validation_df' = validation_df
              /\ log' = log
              /\ merged' = merged
              /\ inventory_sums' = inventory_sums
              /\ reference_sums' = reference_sums
              /\ inventory_df' = inventory_df
              /\ reference_df' = reference_df
       /\ (/\ ledger_outcome # "none"
           /\ ledger_args' = ledger_args) =>
              /\ ledger_outcome' = ledger_outcome
              /\ (ledger_args.date_acquired \/ today' = today) =>
                    v_table' = v_table
              /\ ~ledger_args.date_acquired =>
                    v_table' = Restamped(v_table,
                                         ledger_args.validation_dict,
                                         today')]_vars

\* a call repeated on the datasets the call before it left has returned a
\* report with a counted row, from an inventory whose absent amount the
\* first call filled
C19_ReportWitness ==
    /\ rerun
    /\ outcome = "returned"
    /\ Len(validation_df) >= 2
    /\ error_count >= 1
    /\ \E i \in DOMAIN inventory_df : inventory_df[i].FlowAmount = Fin(0)

\* a call has been repeated on a later day with the same dictionary and no
\* supplied date, and its record lies between other records of the ledger
C19_Witness ==
    /\ ledger_repeat = "later day"
    /\ ledger_outcome = "returned"
    /\ ~ledger_args.date_acquired
    /\ today > 1
    /\ validation_dict.Date_Acquired = StrfTime(today)
    /\ \E i \in DOMAIN v_table :
          /\ 1 < i
          /\ i < Len(v_table)
          /\ v_table[i] = validation_dict

\* a call has been repeated on the day of the call before it
C19_SameDayWitness ==
    /\ ledger_repeat = "same day"
    /\ ledger_outcome = "returned"
    /\ ~ledger_args.date_acquired
    /\ \E i \in DOMAIN v_table : v_table[i] = validation_dict

(***************************************************************************)
(* Properties of the key columns.                                          *)
(***************************************************************************)
\* the key columns the mode of the last call stands for
ModeColumns ==
    CASE group_by = "flow" /\ "Compartment" \in inventory_columns ->
            <<"FlowName", "Compartment">>
      [] group_by = "flow" /\ "Compartment" \notin inventory_columns ->
            <<"FlowName">>
      [] group_by = "state" -> <<"State">>
      [] group_by = "facility" -> <<"FlowName", "FacilityID">>
      [] group_by = "subpart" -> <<"FlowName", "SubpartName">>

\* the keys of the records of a dataset under the key columns
DatasetKeys(df, cols) == {KeyOf(df[i], cols) : i \in DOMAIN df}

\* C15: the key columns of a call are those of its mode, 'flow' with
\* Compartment exactly when the inventory has that column, whatever the
\* columns of the reference.  A call on datasets that both have the key
\* columns aggregates each dataset by them and joins the two tables on
\* them; a call on a dataset without one of them raises KeyError.
C15_KeySetByMode ==
    Called =>
        IF \/ KeyColumnsMissing(ModeColumns, inventory_columns)
           \/ KeyColumnsMissing(ModeColumns, reference_columns)
        THEN outcome = "KeyError"
        ELSE /\ outcome = "returned"
             /\ TableKeys(inventory_sums)
                   = DatasetKeys(inventory_df, ModeColumns)
             /\ TableKeys(reference_sums)
                   = DatasetKeys(reference_df, ModeColumns)
             /\ TableKeys(merged)
                   = DatasetKeys(inventory_df, ModeColumns)
                        \cup DatasetKeys(reference_df, ModeColumns)
             /\ Len(validation_df) = Cardinality(TableKeys(merged))
             /\ \A g \in DOMAIN inventory_sums :
                   inventory_sums[g].FlowAmount =
                      SumGroup(inventory_df, ModeColumns,
                               inventory_sums[g].key, pandas_kahan)
             /\ \A g \in DOMAIN reference_sums :
                   reference_sums[g].FlowAmount =
                      SumGroup(reference_df, ModeColumns,
                               reference_sums[g].key, pandas_kahan)

\* under 'flow' an inventory with a Compartment column has been joined
\* on (FlowName, Compartment): one flow of the inventory in one
\* compartment and of the reference in another makes two rows
C15_Witness ==
    /\ outcome = "returned"
    /\ group_by = "flow"
    /\ "Compartment" \in inventory_columns
    /\ Len(inventory_df) = 1
    /\ Len(reference_df) = 1
    /\ inventory_df[1].FlowName = reference_df[1].FlowName
    /\ Len(validation_df) = 2
    /\ validation_df[1].Conclusion = RefZero
    /\ validation_df[2].Conclusion = InvZero

(***************************************************************************)
(* Properties of the parsing of FlowAmount strings.                        *)
(***************************************************************************)
\* the comma-grouped numerals of the datasets and the numbers they spell
GroupedNumerals ==
    {Str(<<"1", ",", "0", "0", "0", ".", "0", "0">>),
     Str(<<"9", "5", "0">>),
     Str(<<"1", ",", "0", "0", "0">>)}

NumberSpelled(cell) ==
    CASE cell = Str(<<"1", ",", "0", "0", "0", ".", "0", "0">>) -> Fin(1000)
      [] cell = Str(<<"9", "5", "0">>) -> Fin(950)
      [] cell = Str(<<"1", ",", "0", "0", "0">>) -> Fin(1000)

\* every FlowAmount of the dataset is a comma-grouped numeral
AllNumerals(df) ==
    /\ df # <<>>
    /\ \A i \in DOMAIN df : df[i].FlowAmount \in GroupedNumerals

\* every FlowAmount of the dataset is a number (or missing)
AllNumbers(df) == \A i \in DOMAIN df : df[i].FlowAmount.k # "str"

\* the dataset with each numeral replaced by the number it spells and
\* each missing amount by 0.0
AsNumbers(df) ==
    [i \in DOMAIN df |->
        [df[i] EXCEPT !.FlowAmount =
            IF @.k = "str" THEN NumberSpelled(@)
            ELSE IF IsNaN(@) THEN Fin(0) ELSE @]]

\* C18: a call on datasets of which one or both give FlowAmount as
\* comma-grouped numerals (the other as numbers) returns; each dataset is
\* aggregated and compared with the numbers its own numerals spell,
\* whatever the other dataset gives.
C18_StringAmountsParsed ==
    [][(/\ outcome' # "none"
        /\ AllNumerals(inventory_df) \/ AllNumbers(inventory_df)
        /\ AllNumerals(reference_df) \/ AllNumbers(reference_df)
        /\ AllNumerals(inventory_df) \/ AllNumerals(reference_df)) =>
          LET cols == GroupByColumns(group_by', inventory_columns)
          IN  /\ outcome' = "returned"
              /\ inventory_df' = AsNumbers(inventory_df)
              /\ reference_df' = AsNumbers(reference_df)
              /\ inventory_sums' = GroupBySum(AsNumbers(inventory_df), cols,
                                             pandas_kahan)
              /\ reference_sums' = GroupBySum(AsNumbers(reference_df), cols,
                                             pandas_kahan)
              /\ \A m \in DOMAIN validation_df' :
                    /\ Lookup(inventory_sums', validation_df'[m].key)
                          \in {NaN, validation_df'[m].Inventory_Amount}
                    /\ Lookup(reference_sums', validation_df'[m].key)
                          \in {NaN, validation_df'[m].Reference_Amount}]_vars

\* a returned report compares 950.0, which only the string '950' gives,
\* and 1000.0 of '1,000.00' with references of 1000.0: one row is within
\* tolerance, nothing is counted
C18_Witness ==
    /\ outcome = "returned"
    /\ group_by = "flow"
    /\ Len(inventory_df) = 2
    /\ inventory_df[1].FlowAmount = Fin(950)
    /\ inventory_df[2].FlowAmount = Fin(1000)
    /\ reference_df # <<>>
    /\ \E m \in DOMAIN validation_df : validation_df[m].Conclusion = Similar
    /\ error_count = 0

(***************************************************************************)
(* Properties of write_validation_result.                                  *)
(***************************************************************************)
\* the positions of the ledger with the inventory and year of the result
\* file the last call wrote
ResultPositions ==
    {i \in DOMAIN v_table :
        /\ v_table[i].Inventory = written[1].file[1]
        /\ v_table[i].Year = written[1].file[3]}

ErrorLogged == \E i \in DOMAIN write_log : write_log[i].level = "error"

\* C14: every call of write_validation_result writes the result file
\* first.  When the ledger does not hold exactly one record of the
\* inventory and year, the call logs an error and writes nothing else;
\* otherwise it next writes the metadata, made of the Name, Version, URL,
\* Date Acquired and Criteria of that record, and logs no error.
C14_ResultThenMetadata ==
    write_outcome = "returned" =>
        /\ Len(written) >= 1
        /\ written[1].file[4] = ".csv"
        /\ written[1].content \in ReportFrames
        /\ IF Cardinality(ResultPositions) # 1
           THEN /\ Len(written) = 1
                /\ ErrorLogged
           ELSE LET r == v_table[CHOOSE i \in ResultPositions : TRUE]
                IN  /\ Len(written) = 2
                    /\ written[2].file =
                          <<r.Inventory, "_", r.Year, "_metadata.json">>
                    /\ written[2].content.SourceFileName = r.Name
                    /\ written[2].content.SourceVersion = r.Version
                    /\ written[2].content.SourceURL = r.URL
                    /\ written[2].content.SourceAcquisitionTime
                          = r.Date_Acquired
                    /\ written[2].content.Criteria = r.Criteria
                    /\ ~ErrorLogged

\* a call has written a report of one row and then the metadata of the
\* second record of a ledger whose first record is of the same inventory
\* and another year
C14_Witness ==
    /\ write_outcome = "returned"
    /\ Len(written) = 2
    /\ written[1].content # <<>>
    /\ Len(v_table) = 2
    /\ v_table[1].Inventory = v_table[2].Inventory
    /\ written[2].content.SourceVersion = v_table[2].Version
    /\ written[2].content.SourceAcquisitionTime = StrfTime(1)
    /\ v_table[1].Date_Acquired = SuppliedDate

(***************************************************************************)
(* Properties of NEI.generate_national_totals.                             *)
(***************************************************************************)
\* the request of the last call raised ConnectionError or got an error
\* status
DownloadFailed == nei_r.kind = "list" \/ nei_r.status # 200

\* C13: a call of generate_national_totals whose download fails (the
\* connection fails or the response has an error status) sends the
\* request once, logs the failure, and goes on to return: it does not end
\* in an exception.
C13_DownloadFailureSurvived ==
    (nei_outcome # "none" /\ DownloadFailed) =>
        /\ http_requests = 1
        /\ \E i \in DOMAIN nei_log : nei_log[i].level = "error"
        /\ nei_outcome = "returned"

(***************************************************************************)
(* Properties of the data reliability scores of eGRID.                     *)
(***************************************************************************)
\* C20: after the scores are assigned, a Methane or Nitrous oxide row
\* has DataReliability 3 when the plant's primary fuel is PG, RC, WC or
\* SLW and 2 for any other fuel; an Electricity row has 1; any other row
\* has its unit-level score, or 5 when it has none.
C20_ReliabilityByFuel ==
    egrid_step = "scored" =>
        \A i \in DOMAIN flowbyfac :
            flowbyfac_scored[i].DataReliability =
                IF flowbyfac[i].FlowName \in {"Methane", "Nitrous oxide"}
                THEN IF flowbyfac[i].Plant_primary_fuel
                            \in {"PG", "RC", "WC", "SLW"}
                     THEN Fin(3)
                     ELSE Fin(2)
                ELSE IF flowbyfac[i].FlowName = "Electricity"
                     THEN Fin(1)
                     ELSE IF IsNaN(flowbyfac[i].DataReliability)
                          THEN Fin(5)
                          ELSE flowbyfac[i].DataReliability


(***************************************************************************)
(* C17: the percentage and its independence of scale.                      *)
(***************************************************************************)
Min(a, b) == IF a <= b THEN a ELSE b

\* |a - b| of two naturals
BAbsDiff(a, b) == IF BCmp(a, b) >= 0 THEN BSub(a, b) ELSE BSub(b, a)

\* pct * ref and 100 * |ref - inv| as naturals of one exponent, computed
\* without rounding, and their distance
PctError(pct, inv, ref) ==
    LET e0 == Min(inv.e, ref.e)
        diff == BAbsDiff(BShl(ref.m, ref.e - e0), BShl(inv.m, inv.e - e0))
        ex == pct.e + ref.e
        e1 == Min(ex, e0)
        reported == BShl(BMul(pct.m, ref.m), ex - e1)
        exact == BShl(BMulSmall(diff, 100), e0 - e1)
    IN  [exact |-> exact, err |-> BAbsDiff(reported, exact)]

\* pct is the real number 100 * |ref - inv| / ref
IsThePercentage(pct, inv, ref) == PctError(pct, inv, ref).err = <<>>

\* pct is within the error of three roundings of 100 * |ref - inv| / ref
WithinRounding(pct, inv, ref) ==
    LET pe == PctError(pct, inv, ref)
    IN  BCmp(BShl(pe.err, Precision - 2), pe.exact) <= 0

IsPowerOfTwo(k) == k.m = BShl(<<1>>, Precision - 1)

\* C17 as stated: the reported percentage of a non-negative inventory
\* amount and a positive reference amount is 100 * |ref - inv| / ref, and
\* multiplying both amounts by any factor k > 0 changes neither the
\* percentage nor the conclusion.
C17_ExactAndScaleFree ==
    scale_step = "validated" =>
        /\ IsThePercentage(plain_row.pct_diff, scale_inv, scale_ref)
        /\ scaled_row.pct_diff = plain_row.pct_diff
        /\ scaled_row.conclusion = plain_row.conclusion

\* C17 as amended: the reported percentage of a finite non-negative
\* inventory amount and a finite positive reference amount is
\* 100 * |ref - inv| / ref computed in double precision, the reference the
\* denominator: within the error of its three roundings of the real value,
\* and exactly 100 for a zero inventory amount; multiplying both amounts by
\* a power of two changes neither the percentage nor the conclusion.
C17_RoundedAndBinaryScaleFree ==
    scale_step = "validated" =>
        /\ WithinRounding(plain_row.pct_diff, scale_inv, scale_ref)
        /\ WithinRounding(scaled_row.pct_diff, scaled_inv, scaled_ref)
        /\ DIsZero(scale_inv) => plain_row.pct_diff = DInt(100)
        /\ IsPowerOfTwo(scale_k) =>
               /\ scaled_row.pct_diff = plain_row.pct_diff
               /\ scaled_row.conclusion = plain_row.conclusion

\* amounts 21 and 20, a quarter of each: 5 percent, within the tolerance,
\* both times
C17_Witness ==
    /\ scale_step = "validated"
    /\ scale_inv = DInt(21)
    /\ scale_ref = DInt(20)
    /\ scale_k = DLiteral(1, 4)
    /\ scaled_inv # scale_inv
    /\ plain_row = DEntry(DInt(5), Similar, 0)
    /\ scaled_row = plain_row


(***************************************************************************)
(* C21: the steps of a validation run.                                     *)
(***************************************************************************)
IsPrefix(s, t) == Len(s) <= Len(t) /\ s = SubSeq(t, 1, Len(s))

\* the steps of a run that generates the file, and of one that finds it
StepsWithGeneration ==
    <<"os.path.exists", "generate_national_totals", "read_csv",
      "validate_inventory", "write_validation_result">>

StepsWithoutGeneration ==
    <<"os.path.exists", "read_csv", "validate_inventory",
      "write_validation_result">>

\* the run has written the national totals file of its year
FileGenerated == ~run_existed /\ RunTotalsFile.exists

\* the run has inserted or replaced the record of the ledger
LedgerUpserted ==
    /\ ledger_outcome = "returned"
    /\ \E i \in DOMAIN v_table :
          /\ v_table[i].Inventory = run_inventory
          /\ v_table[i].Year = run_year
          /\ v_table[i].Version = ConfigVersion

\* C21: in a validation run the national totals file is generated, and
\* the ledger upserted, if and only if the file did not exist, before the
\* file is read; the steps are taken in the order ensure totals, read
\* totals, validate_inventory, write_validation_result; a run that finds
\* the file leaves the ledger as it was.
C21_TotalsEnsuredThenValidated ==
    run_pc # "called" =>
        /\ (FileGenerated /\ LedgerUpserted) <=> ~run_existed
        /\ IsPrefix(run_trace,
                    IF run_existed THEN StepsWithoutGeneration
                    ELSE StepsWithGeneration)
        /\ run_pc = "done" =>
              run_trace \in {StepsWithGeneration, StepsWithoutGeneration}
        /\ run_existed => v_table = run_ledger

====
